---- MODULE Spec2Model ----
(***************************************************************************)
(* vigil: the orchestration Engine, the Backend configuration lifecycle,   *)
(* the Variation application model and the Check evaluation model.         *)
(*                                                                         *)
(* Engine.run is sequential; `pc` is its position.  Backend.run is split   *)
(* at its try/finally: the compute call, the finally block, the exit.      *)
(* The variations and checks lists are arguments of Engine.run whose       *)
(* entry i is read only by iteration i of the loop over them: the model    *)
(* draws each entry when the loop reads it, and `variations` / `checks`    *)
(* hold the entries read so far.                                           *)
(***************************************************************************)
EXTENDS Integers, Sequences, FiniteSets, TLC

\* ------------------------------------------------------------------ bounds
MaxInputs == 2
MaxVariations == 2
MaxChecks == 2
\* The number of compute calls followed in one run, and the number of
\* entries of the variations and checks lists together.
MaxComputeCalls == 6
MaxEntries == 3
\* The Engine.run calls the CLI loop makes on one backend.
MaxRuns == 2

\* ------------------------------------------------------------------ values
\* Python's None, and the marker of a key that is not in a dict.
None == "None"
Missing == "<missing>"

\* Severity values (Check.Severity).
INFO == 0
PASS == 1
WARN == 2
FAIL == 3

\* Input ids the caller declares, the data of a declared input, and the
\* data / id an INPUT variation writes.
Ids == {"0", "1"}
VariedId == "x"
Data == "d0"
VariedData == "d1"
\* What `reference` of a declared input may be: not declared, declared as
\* null, declared as a value.
References == {Missing, None, VariedData}

\* ------------------------------------------------------------------ dicts
MapSet(m, k, v) == [x \in DOMAIN m \cup {k} |-> IF x = k THEN v ELSE m[x]]
MapDel(m, k) == [x \in DOMAIN m \ {k} |-> m[x]]
\* dict.update(p): the keys of p overwrite, every other key stays.
MapUpdate(m, p) == [x \in DOMAIN m \cup DOMAIN p |-> IF x \in DOMAIN p THEN p[x] ELSE m[x]]
EmptyMap == [x \in {} |-> None]
\* A dict of one key.
Single(k, v) == [x \in {k} |-> v]

\* A variant that never finds the declared reference.
GetReference_Ignored(input) == None

\* input.get("reference")
GetReference(input) == IF input.reference = Missing THEN None ELSE input.reference

\* ------------------------------------------------------------------ variations
\* A variation is its intent, its class name, what its vary does and its
\* hash.  No variation class defines __hash__: the hash is the default one,
\* derived from the object's identity, so two entries of the variations
\* list have the same hash exactly when they are the same object.  The
\* model takes as hash the first position of the list that holds the
\* object; the definitions below are the objects first held at position 1.
NoVariation == [intent |-> None, name |-> "none", op |-> "none", hash |-> 0]
SetInputData == [intent |-> "input", name |-> "SetInput", op |-> "data", hash |-> 1]
SetInputId == [intent |-> "input", name |-> "SetInput", op |-> "id", hash |-> 1]
DropFirst == [intent |-> "input", name |-> "DropFirst", op |-> "tail", hash |-> 1]
SetFn == [intent |-> "function", name |-> "SetFn", op |-> "set", hash |-> 1]
DropFn == [intent |-> "function", name |-> "DropFn", op |-> "del", hash |-> 1]
SetEnv == [intent |-> "environment", name |-> "SetEnv", op |-> "set", hash |-> 1]

Variations == {NoVariation, SetInputData, SetInputId, DropFirst, SetFn, DropFn, SetEnv}

\* Two variations of the same class with the same construction parameters.
SameConfiguration(v, w) == v.intent = w.intent /\ v.name = w.name /\ v.op = w.op

\* The objects the next entry of the list `read` may be, for a variation
\* configured as v: an object the list already holds (`repeat` multiplies
\* the list of resolved objects, so the same object recurs) or a new one.
VariationObjects(v, read) ==
    {read[i] : i \in {j \in 1..Len(read) : SameConfiguration(read[j], v)}}
        \cup {[v EXCEPT !.hash = Len(read) + 1]}

\* vary of an INPUT variation: the list after the in-place mutation
\* (`copied`), whether vary returns a list (`returns`) and the list it
\* returns.  SetInput updates every input dict in place and returns
\* nothing; DropFirst returns a new list without the first input (the
\* empty list for at most one input).
InputVary(v, copied) ==
    CASE v.op = "data" ->
           [copied |-> [i \in 1..Len(copied) |-> [copied[i] EXCEPT !.data = VariedData]],
            returns |-> FALSE, returned |-> <<>>]
      [] v.op = "id" ->
           [copied |-> [i \in 1..Len(copied) |-> [copied[i] EXCEPT !.id = VariedId]],
            returns |-> FALSE, returned |-> <<>>]
      [] OTHER ->
           [copied |-> copied, returns |-> TRUE,
            returned |-> IF copied = <<>> THEN <<>> ELSE Tail(copied)]

\* InputVariation.apply: `returned if returned is not None else copied`
\* (an empty list is not None).
InputApply(v, ins) ==
    LET r == InputVary(v, ins)
    IN  IF r.returns THEN r.returned ELSE r.copied

\* vary of a FUNCTION / ENVIRONMENT variation on the key it targets:
\* SetFn / SetEnv assign the key and return the map, DropFn deletes the
\* key in place and returns nothing.
ConfigVary(v, copied, key) ==
    CASE v.op = "set" ->
           [copied |-> MapSet(copied, key, "var"), returns |-> TRUE,
            returned |-> MapSet(copied, key, "var")]
      [] OTHER ->
           [copied |-> MapDel(copied, key), returns |-> FALSE, returned |-> EmptyMap]

\* `returned if returned is not None else copied`: the map apply hands to
\* backend.set_function / backend.set_environment.
VaryResult(v, cfg, key) ==
    LET r == ConfigVary(v, cfg, key)
    IN  IF r.returns THEN r.returned ELSE r.copied

\* ------------------------------------------------------------------ state
VARIABLES
    base_environment, base_function,  \* Backend._base_environment / _base_function
    environment, function,            \* Backend.environment / function (current)
    env_applied,                      \* calls of update_environment, in order
    fn_seen,                          \* calls of compute, in order
    inputs,                           \* Engine.run argument
    variations, checks,               \* Engine.run arguments, the entries read so far
    references_by_input_id,           \* dict id -> reference Slice
    all_slices,                       \* slices accumulated over the passes
    ref_index,                        \* position of _build_references in inputs
    applied_inputs, input_index, slices, \* locals of the current pass
    snapshot,                         \* function_snapshot / environment_snapshot
    run_call,                         \* frame of the Backend.run in progress
    evaluated,                        \* the evaluate calls made, with their results
    report,                           \* calls received by the reporting sink
    error,                            \* the error that ended the run, or None
    merge_calls,                      \* the calls of Severity.merge made directly
    load_calls,                       \* the calls of the Specification loader made directly
    backend_class,                    \* the class of the backend under evaluation
    backend_calls,                    \* the calls made directly on the backend
    runs,                             \* the earlier Engine.run calls of the CLI loop
    pc

backend_vars == <<base_environment, base_function, environment, function, env_applied, fn_seen>>
engine_vars == <<inputs, variations, checks, references_by_input_id, all_slices, ref_index,
                 applied_inputs, input_index, slices, snapshot>>
\* What the direct calls of the other specifications keep.
direct_vars == <<merge_calls, load_calls, runs, backend_class, backend_calls>>
vars == <<backend_vars, engine_vars, run_call, evaluated, report, error, direct_vars, pc>>

\* Number of calls observed so far on the backend, on the sink and on the
\* checks: the position in time of the next one.
Now == Len(env_applied) + Len(fn_seen) + Len(report) + Len(evaluated)

\* The frame of a Backend.run call: its arguments, whether compute raised,
\* whether update_environment raised in the finally block, the output, and
\* the loop (and its position) that made the call.
RunCall(data, cleanup_env, cleanup_fn, caller, index) ==
    [data |-> data, cleanup_env |-> cleanup_env, cleanup_fn |-> cleanup_fn,
     raised |-> FALSE, cleanup_raised |-> FALSE, output |-> None,
     caller |-> caller, index |-> index]
NoCall == RunCall(None, FALSE, FALSE, None, 0)
\* A variant in which the error of the call is caught and dropped.
Raises_Swallowed(call) == FALSE

\* The call ends in an error.
Raises(call) == call.raised \/ call.cleanup_raised
NoSnapshot == [function |-> EmptyMap, environment |-> EmptyMap]

\* ------------------------------------------------------------------ Slice
Slice(input, output, fn, env, variation, source) ==
    [input |-> input, output |-> output, function |-> fn, environment |-> env,
     variation |-> variation, source |-> source]

input_id(s) == s.input.id

\* A variant that derives the id from the input id alone.
SliceId_InputOnly(s) == <<"input", input_id(s), "reference">>

\* Slice.id
SliceId(s) ==
    IF s.variation = NoVariation
    THEN <<"input", input_id(s), "reference">>
    ELSE <<"input", input_id(s), "variation", s.variation.name, s.variation.hash>>

\* ------------------------------------------------------------------ inputs
InputSet == [id : Ids, data : {Data}, reference : References]

RECURSIVE SeqsUpTo(_, _)
SeqsUpTo(S, n) ==
    IF n = 0 THEN {<<>>}
    ELSE LET shorter == SeqsUpTo(S, n - 1)
         IN  shorter \cup {Append(s, x) : s \in {t \in shorter : Len(t) = n - 1}, x \in S}

\* ------------------------------------------------------------------ deepcopy
\* An object handed to a callee: its value, and whether it is the very
\* object its owner holds.  A variant that hands the owner's object over:
DeepCopy_SameObject(value) == [value |-> value, shared |-> TRUE]

\* deepcopy(value): an equal value in an object of its own.
DeepCopy(value) == [value |-> value, shared |-> FALSE]

\* What a callee that writes into the object it receives leaves in it: a
\* key of its own in a map, another value in an input.
Mutated(m) == MapSet(m, "mutated", "yes")
MutatedInput(data) == "mutated"

\* A variant in which the holder keeps the original object.
Kept_OriginalObject(copy) == Mutated(copy.value)

\* What the holder of a copy keeps once the owner of the original has
\* written into the original.
Kept(copy) == IF copy.shared THEN Mutated(copy.value) ELSE copy.value

\* What the owner holds after the callee wrote into the handed object.
AfterMutation(owned, handed) == IF handed.shared THEN Mutated(handed.value) ELSE owned
AfterInputMutation(owned, handed) ==
    IF handed.shared THEN MutatedInput(handed.value) ELSE owned

\* ------------------------------------------------------------------ Backend
\* The backend classes: the tracking backend of the tests, whose hooks only
\* record their calls, and the backends of the studies.
BackendClasses == {"TrackingBackend", "DatsLlm", "SshWhisper"}

\* The base configuration each class hands to Backend.__init__.
BaseEnvironment(class) ==
    CASE class = "DatsLlm" -> [project_name |-> "p", recreate_project |-> "no"]
      [] class = "SshWhisper" -> [host |-> "h", port |-> "10130"]
      [] OTHER -> [env |-> "base"]
BaseFunction(class) ==
    CASE class = "DatsLlm" -> [llm_job_type |-> "SENTENCE_ANNOTATION"]
      [] class = "SshWhisper" -> [endpoint |-> "/whisper/transcribe"]
      [] OTHER -> [fn |-> "base"]

\* DatsClient.ensure_project: the id of the project of that name.
ProjectId(project_name) == <<"id", project_name>>

\* The environment most recently passed to update_environment: the state
\* of the underlying system (for SshWhisper, self._host / _remote_port).
Live == env_applied[Len(env_applied)].environment

\* update_environment of the class, when it returns: what it leaves in
\* self.environment, where the caller has stored `current` and whence it
\* passes `passed`.  TrackingBackend records the call; DatsLlm writes the
\* project id into self.environment; SshWhisper returns early for the
\* host and port it is connected to, and else replaces self.environment.
UpdateEnvironment(class, current, passed, live) ==
    CASE class = "DatsLlm" ->
           MapSet(current, "project_id", ProjectId(passed.project_name))
      [] class = "SshWhisper" ->
           IF passed.host = live.host /\ passed.port = live.port
           THEN current
           ELSE [host |-> passed.host, port |-> passed.port]
      [] OTHER -> current

\* self.environment after `self.update_environment(deepcopy(current))`
\* returned, for a hook that also writes into the map it receives.
ApplyEnvironment(current) ==
    LET handed == DeepCopy(current)
    IN  UpdateEnvironment(backend_class, AfterMutation(current, handed), handed.value, Live)

\* Backend.__init__ with the configuration of the test backend:
\* environment={"env": "base"}, function={"fn": "base"}; update_environment
\* is invoked once with the base environment.
BackendInit ==
    /\ backend_class = "TrackingBackend"
    /\ base_environment = [env |-> "base"]
    /\ base_function = [fn |-> "base"]
    /\ environment = base_environment
    /\ function = base_function
    /\ env_applied = <<[environment |-> base_environment, t |-> 0]>>
    /\ fn_seen = <<>>

\* compute of the backend under evaluation: it returns its input, or
\* raises; it writes into the input and the function map it receives.
Compute(data, fn) == data

\* Backend.run, the try block: compute(deepcopy(input), deepcopy(self.function)).
BackendRunCompute ==
    /\ pc = "run_compute"
    /\ Len(fn_seen) < MaxComputeCalls
    /\ fn_seen' = Append(fn_seen,
          [data |-> run_call.data, function |-> function,
           environment |-> environment,
           cleanup_env |-> run_call.cleanup_env, cleanup_fn |-> run_call.cleanup_fn,
           caller |-> run_call.caller, pass |-> Len(variations),
           index |-> run_call.index, t |-> Now])
    /\ \E raises \in BOOLEAN :
          run_call' = [run_call EXCEPT !.raised = raises,
                                       !.output = IF raises THEN None
                                                  ELSE Compute(run_call.data, function),
                                       !.data = AfterInputMutation(@, DeepCopy(@))]
    /\ function' = AfterMutation(function, DeepCopy(function))
    /\ pc' = "run_finally"
    /\ UNCHANGED <<base_environment, base_function, environment, env_applied,
                   engine_vars, evaluated, report, error, direct_vars>>

\* A variant that cleans up after the try block instead of in a finally
\* block: no cleanup when compute raised.
CleanupFunction_OnlyOnReturn(call) ==
    IF call.cleanup_fn /\ ~call.raised THEN base_function ELSE function

\* The function configuration the finally block leaves.
CleanupFunction(call) == IF call.cleanup_fn THEN base_function ELSE function

\* The finally block resets and re-applies the environment.
CleanupEnvironment(call) == call.cleanup_env

\* Backend.run, the finally block; update_environment may raise as well.
BackendRunFinally ==
    /\ pc = "run_finally"
    /\ function' = CleanupFunction(run_call)
    /\ IF CleanupEnvironment(run_call)
       THEN /\ env_applied' = Append(env_applied,
                                     [environment |-> base_environment, t |-> Now])
            /\ \E raises \in BOOLEAN :
                  /\ run_call' = [run_call EXCEPT !.cleanup_raised = raises]
                  /\ environment' = IF raises THEN base_environment
                                    ELSE ApplyEnvironment(base_environment)
       ELSE UNCHANGED <<environment, env_applied, run_call>>
    /\ pc' = "run_exit"
    /\ UNCHANGED <<base_environment, base_function, fn_seen, engine_vars, evaluated,
                   report, error, direct_vars>>

\* A variant that stores the partial map in place of the merged one.
set_function_Replace(partial) == partial

\* Backend.set_function
set_function(partial) == MapUpdate(function, partial)

\* Backend.set_environment: the new current environment (it is applied
\* at once by the action that calls it).
set_environment(partial) == MapUpdate(environment, partial)

\* ------------------------------------------------------------------ checks
AlwaysPass == [intent |-> "unary", name |-> "AlwaysPass"]
MatchesBaseline == [intent |-> "reference", name |-> "MatchesBaseline"]
WerIsUnder == [intent |-> "group", name |-> "WerIsUnder"]
\* UnaryCheck itself: its check method is not overridden.
AbstractCheck == [intent |-> "unary", name |-> "UnaryCheck"]
RepetitionsUnder == [intent |-> "unary", name |-> "RepetitionsUnder"]
Checks == {AlwaysPass, MatchesBaseline, WerIsUnder, AbstractCheck, RepetitionsUnder}

\* The check method of the class raises (UnaryCheck.check raises
\* NotImplementedError).
CheckRaises(check) == check = AbstractCheck

NoSeverity == INFO - 1
SeverityLabel(sev) ==
    CASE sev = INFO -> "info" [] sev = PASS -> "pass" [] sev = WARN -> "warn"
      [] sev = FAIL -> "fail" [] OTHER -> None

\* A variant that returns the first severity of the list.
SeverityMerge_First(severities) == IF severities = <<>> THEN INFO ELSE Head(severities)

\* Check.Severity.merge: max by value, INFO for the empty list.
RECURSIVE SeverityMerge(_)
SeverityMerge(severities) ==
    IF severities = <<>> THEN INFO
    ELSE LET rest == SeverityMerge(Tail(severities))
         IN  IF Len(severities) = 1 THEN Head(severities)
             ELSE IF Head(severities) >= rest THEN Head(severities) ELSE rest

\* AlwaysPass.check returns PASS.  RepetitionsUnder.check counts the
\* repetitions in the output: the output of a declared input has none, the
\* output for the data an INPUT variation writes has more than the
\* threshold.
UnaryCheckFn(check, slice) ==
    IF check = RepetitionsUnder /\ slice.output = VariedData THEN FAIL ELSE PASS

\* An output json.dumps cannot encode (the date of a YAML declaration, a
\* set), and MatchesBaseline._norm_json, which raises on it.
Unencodable == "<date>"
JsonEncodable(output) == output # Unencodable

\* MatchesBaseline.check
ReferenceCheckFn(check, slice, reference) ==
    IF slice.output = reference.output THEN PASS ELSE FAIL

\* MatchesBaseline.check raises: on a mismatch it builds the diff from
\* _norm_json of both outputs (include_diff is True by default).
ReferenceCheckRaises(check, slice, reference) ==
    /\ slice.output # reference.output
    /\ ~(JsonEncodable(reference.output) /\ JsonEncodable(slice.output))

\* WerIsUnder.check on one-word transcripts: the word error rate of a pair
\* is 0 when the outputs are equal and 1, above the threshold, otherwise.
GroupCheckFn(check, group) ==
    IF Len(group) < 2 THEN INFO
    ELSE IF \A i, j \in 1..Len(group) : group[i].output = group[j].output
         THEN PASS ELSE FAIL

\* What evaluate did: the error it raised (None when it returned), the
\* invocations of check in order (positions in `slices`; for a group
\* check the positions of the group), the merged severity and the
\* annotation it returned.
Raised(kind, calls) ==
    [raised |-> kind, calls |-> calls, severity |-> NoSeverity, annotation |-> EmptyMap]
Returned(calls, severity, annotation) ==
    [raised |-> None, calls |-> calls, severity |-> severity, annotation |-> annotation]

ErrNoSlices == "ValueError: at least one slice required"
ErrCount == "ValueError: mismatched number of slices and reference slices"
ErrAlignment == "ValueError: mismatched slice/reference alignment"
ErrKey == "KeyError"
ErrBackend == "BackendError"
ErrCheck == "NotImplementedError"
ErrJson == "TypeError: not JSON serializable"

\* The annotation keyed by slice id: a later slice with the same id
\* overwrites the entry of an earlier one.
RECURSIVE KeyedBySliceId(_, _)
KeyedBySliceId(sl, severities) ==
    IF sl = <<>> THEN EmptyMap
    ELSE LET n == Len(sl)
         IN  MapSet(KeyedBySliceId(SubSeq(sl, 1, n - 1), SubSeq(severities, 1, n - 1)),
                    SliceId(sl[n]), SeverityLabel(severities[n]))

\* A variant that returns the severity of the last slice instead of the
\* merged one.
UnaryEvaluate_LastSeverity(check, sl, refs) ==
    IF sl = <<>> THEN Raised(ErrNoSlices, <<>>)
    ELSE IF CheckRaises(check) THEN Raised(ErrCheck, <<1>>)
    ELSE LET severities == [i \in 1..Len(sl) |-> UnaryCheckFn(check, sl[i])]
         IN  Returned([i \in 1..Len(sl) |-> i], severities[Len(sl)],
                      KeyedBySliceId(sl, severities))

\* UnaryCheck.evaluate
UnaryEvaluate(check, sl, refs) ==
    IF sl = <<>> THEN Raised(ErrNoSlices, <<>>)
    ELSE IF CheckRaises(check) THEN Raised(ErrCheck, <<1>>)
    ELSE LET severities == [i \in 1..Len(sl) |-> UnaryCheckFn(check, sl[i])]
         IN  Returned([i \in 1..Len(sl) |-> i], SeverityMerge(severities),
                      KeyedBySliceId(sl, severities))

\* The first position of the zip at which the input ids differ, 0 if none.
FirstMisaligned(sl, refs) ==
    LET n == IF Len(sl) <= Len(refs) THEN Len(sl) ELSE Len(refs)
        bad == {i \in 1..n : input_id(sl[i]) # input_id(refs[i])}
    IN  IF bad = {} THEN 0 ELSE CHOOSE i \in bad : \A j \in bad : i <= j

\* A variant without the count test: zip stops at the shorter list.
ReferenceEvaluate_Zip(check, sl, refs) ==
    IF sl = <<>> THEN Raised(ErrNoSlices, <<>>)
    ELSE LET n == IF Len(sl) <= Len(refs) THEN Len(sl) ELSE Len(refs)
             m == FirstMisaligned(sl, refs)
             severities == [i \in 1..n |-> ReferenceCheckFn(check, sl[i], refs[i])]
         IN  IF m # 0 THEN Raised(ErrAlignment, [i \in 1..(m - 1) |-> i])
             ELSE Returned([i \in 1..n |-> i], SeverityMerge(severities),
                           KeyedBySliceId(SubSeq(sl, 1, n), severities))

\* A variant that invokes check on a pair before it compares the ids.
ReferenceEvaluate_CheckFirst(check, sl, refs) ==
    IF sl = <<>> THEN Raised(ErrNoSlices, <<>>)
    ELSE IF Len(sl) # Len(refs) THEN Raised(ErrCount, <<>>)
    ELSE LET m == FirstMisaligned(sl, refs)
             severities == [i \in 1..Len(sl) |-> ReferenceCheckFn(check, sl[i], refs[i])]
         IN  IF m # 0 THEN Raised(ErrAlignment, [i \in 1..m |-> i])
             ELSE Returned([i \in 1..Len(sl) |-> i], SeverityMerge(severities),
                           KeyedBySliceId(sl, severities))

\* The first pair on which check raises, 0 when there is none.
FirstRaising(check, sl, refs) ==
    LET n == IF Len(sl) <= Len(refs) THEN Len(sl) ELSE Len(refs)
        bad == {i \in 1..n : ReferenceCheckRaises(check, sl[i], refs[i])}
    IN  IF bad = {} THEN 0 ELSE CHOOSE i \in bad : \A j \in bad : i <= j

\* ReferenceCheck.evaluate: the loop over the pairs ends at the first pair
\* that is misaligned or on which check raises.
ReferenceEvaluate(check, sl, refs) ==
    IF sl = <<>> THEN Raised(ErrNoSlices, <<>>)
    ELSE IF Len(sl) # Len(refs) THEN Raised(ErrCount, <<>>)
    ELSE LET m == FirstMisaligned(sl, refs)
             r == FirstRaising(check, sl, refs)
             severities == [i \in 1..Len(sl) |-> ReferenceCheckFn(check, sl[i], refs[i])]
         IN  IF m # 0 /\ (r = 0 \/ m <= r)
             THEN Raised(ErrAlignment, [i \in 1..(m - 1) |-> i])
             ELSE IF r # 0 THEN Raised(ErrJson, [i \in 1..r |-> i])
             ELSE Returned([i \in 1..Len(sl) |-> i], SeverityMerge(severities),
                           KeyedBySliceId(sl, severities))

\* The input ids of the slices in order of first appearance.
RECURSIVE GroupKeys(_)
GroupKeys(sl) ==
    IF sl = <<>> THEN <<>>
    ELSE LET n == Len(sl)
             before == GroupKeys(SubSeq(sl, 1, n - 1))
         IN  IF \E i \in 1..Len(before) : before[i] = input_id(sl[n])
             THEN before ELSE Append(before, input_id(sl[n]))

\* A variant that lists the slices of a group last first.
GroupPositions_Reversed(sl, id) ==
    LET Member(i) == input_id(sl[i]) = id
        inOrder == SelectSeq([i \in 1..Len(sl) |-> i], Member)
    IN  [k \in 1..Len(inOrder) |-> inOrder[Len(inOrder) + 1 - k]]

\* The positions of the slices of one input id, in slice order.
GroupPositions(sl, id) ==
    LET Member(i) == input_id(sl[i]) = id
    IN  SelectSeq([i \in 1..Len(sl) |-> i], Member)

\* A variant that skips no group: check is invoked on a group of one.
GroupEvaluate_NoneSkipped(check, sl, refs) ==
    IF sl = <<>> THEN Raised(ErrNoSlices, <<>>)
    ELSE LET keys == GroupKeys(sl)
             Qualifies(id) == Len(GroupPositions(sl, id)) >= 1
             Skipped(id) == ~Qualifies(id)
             evaluatedKeys == SelectSeq(keys, Qualifies)
             skipped == SelectSeq(keys, Skipped)
             GroupOf(id) == [k \in 1..Len(GroupPositions(sl, id)) |->
                               sl[GroupPositions(sl, id)[k]]]
             severities == [k \in 1..Len(evaluatedKeys) |->
                              GroupCheckFn(check, GroupOf(evaluatedKeys[k]))]
             results == [id \in {evaluatedKeys[k] : k \in 1..Len(evaluatedKeys)} |->
                           SeverityLabel(GroupCheckFn(check, GroupOf(id)))]
         IN  Returned([k \in 1..Len(evaluatedKeys) |-> GroupPositions(sl, evaluatedKeys[k])],
                      SeverityMerge(severities),
                      [groups |-> results, n_groups |-> Cardinality(DOMAIN results),
                       skipped |-> skipped, n_skipped |-> Len(skipped)])

\* A variant that reports as n_groups the number of all the groups.
GroupEvaluate_CountsAllGroups(check, sl, refs) ==
    IF sl = <<>> THEN Raised(ErrNoSlices, <<>>)
    ELSE LET keys == GroupKeys(sl)
             Qualifies(id) == Len(GroupPositions(sl, id)) >= 2
             Skipped(id) == ~Qualifies(id)
             evaluatedKeys == SelectSeq(keys, Qualifies)
             skipped == SelectSeq(keys, Skipped)
             GroupOf(id) == [k \in 1..Len(GroupPositions(sl, id)) |->
                               sl[GroupPositions(sl, id)[k]]]
             severities == [k \in 1..Len(evaluatedKeys) |->
                              GroupCheckFn(check, GroupOf(evaluatedKeys[k]))]
             results == [id \in {evaluatedKeys[k] : k \in 1..Len(evaluatedKeys)} |->
                           SeverityLabel(GroupCheckFn(check, GroupOf(id)))]
         IN  Returned([k \in 1..Len(evaluatedKeys) |-> GroupPositions(sl, evaluatedKeys[k])],
                      SeverityMerge(severities),
                      [groups |-> results, n_groups |-> Len(keys),
                       skipped |-> skipped, n_skipped |-> Len(skipped)])

\* A variant without the test for an empty slice list: no group, INFO.
GroupEvaluate_EmptyIsInfo(check, sl, refs) ==
    IF sl = <<>>
    THEN Returned(<<>>, INFO, [groups |-> EmptyMap, n_groups |-> 0,
                                skipped |-> <<>>, n_skipped |-> 0])
    ELSE LET keys == GroupKeys(sl)
             Qualifies(id) == Len(GroupPositions(sl, id)) >= 2
             Skipped(id) == ~Qualifies(id)
             evaluatedKeys == SelectSeq(keys, Qualifies)
             skipped == SelectSeq(keys, Skipped)
             GroupOf(id) == [k \in 1..Len(GroupPositions(sl, id)) |->
                               sl[GroupPositions(sl, id)[k]]]
             severities == [k \in 1..Len(evaluatedKeys) |->
                              GroupCheckFn(check, GroupOf(evaluatedKeys[k]))]
             results == [id \in {evaluatedKeys[k] : k \in 1..Len(evaluatedKeys)} |->
                           SeverityLabel(GroupCheckFn(check, GroupOf(id)))]
         IN  Returned([k \in 1..Len(evaluatedKeys) |-> GroupPositions(sl, evaluatedKeys[k])],
                      SeverityMerge(severities),
                      [groups |-> results, n_groups |-> Cardinality(DOMAIN results),
                       skipped |-> skipped, n_skipped |-> Len(skipped)])

\* GroupCheck.evaluate
GroupEvaluate(check, sl, refs) ==
    IF sl = <<>> THEN Raised(ErrNoSlices, <<>>)
    ELSE LET keys == GroupKeys(sl)
             Qualifies(id) == Len(GroupPositions(sl, id)) >= 2
             Skipped(id) == ~Qualifies(id)
             evaluatedKeys == SelectSeq(keys, Qualifies)
             skipped == SelectSeq(keys, Skipped)
             GroupOf(id) == [k \in 1..Len(GroupPositions(sl, id)) |->
                               sl[GroupPositions(sl, id)[k]]]
             severities == [k \in 1..Len(evaluatedKeys) |->
                              GroupCheckFn(check, GroupOf(evaluatedKeys[k]))]
             results == [id \in {evaluatedKeys[k] : k \in 1..Len(evaluatedKeys)} |->
                           SeverityLabel(GroupCheckFn(check, GroupOf(id)))]
         IN  Returned([k \in 1..Len(evaluatedKeys) |-> GroupPositions(sl, evaluatedKeys[k])],
                      SeverityMerge(severities),
                      [groups |-> results, n_groups |-> Cardinality(DOMAIN results),
                       skipped |-> skipped, n_skipped |-> Len(skipped)])

\* A variant that turns an error of evaluate into an INFO result.
Evaluate_FailureIsInfo(check, sl, refs) ==
    LET result == CASE check.intent = "unary" -> UnaryEvaluate(check, sl, refs)
                    [] check.intent = "reference" -> ReferenceEvaluate(check, sl, refs)
                    [] OTHER -> GroupEvaluate(check, sl, refs)
    IN  IF result.raised # None THEN Returned(result.calls, INFO, EmptyMap) ELSE result

\* check.evaluate, dispatched on the class of the check.
Evaluate(check, sl, refs) ==
    CASE check.intent = "unary" -> UnaryEvaluate(check, sl, refs)
      [] check.intent = "reference" -> ReferenceEvaluate(check, sl, refs)
      [] OTHER -> GroupEvaluate(check, sl, refs)

\* ------------------------------------------------------------------ Engine
\* A call received by the reporting sink.
Event(op, index, name, n_inputs, severity) ==
    [op |-> op, index |-> index, name |-> name, n_inputs |-> n_inputs,
     severity |-> severity, t |-> Now]

\* Lists that differ only by a renaming of the ids behave alike (an id is
\* only compared for equality): the first declared input has id "0".
InputLists == {l \in SeqsUpTo(InputSet, MaxInputs) : l = <<>> \/ l[1].id = "0"}

\* A variant that keys the reference map by the input's data.
StoreReference_KeyedByData(references, input, slice) == MapSet(references, input.data, slice)

\* references[input["id"]] = Slice(...)
StoreReference(references, input, slice) == MapSet(references, input.id, slice)

\* The state at the call of Engine.run on a freshly constructed backend.
Init ==
    /\ BackendInit
    /\ inputs \in InputLists
    /\ variations = <<>>
    /\ checks = <<>>
    /\ references_by_input_id = EmptyMap
    /\ all_slices = <<>>
    /\ ref_index = 1
    /\ applied_inputs = <<>>
    /\ input_index = 1
    /\ slices = <<>>
    /\ snapshot = NoSnapshot
    /\ run_call = NoCall
    /\ evaluated = <<>>
    /\ report = <<>>
    /\ error = None
    /\ merge_calls = <<>>
    /\ load_calls = <<>>
    /\ runs = <<>>
    /\ backend_calls = <<>>
    /\ pc = "build_references"

\* Engine._build_references, an input that carries a reference that is
\* not None: the declared value is the output, the backend is not run.
BuildReferencesProvided ==
    /\ pc = "build_references"
    /\ ref_index <= Len(inputs)
    /\ LET input == inputs[ref_index]
           reference_output == GetReference(input)
       IN  /\ reference_output # None
           /\ snapshot' = [function |-> function, environment |-> environment]
           /\ references_by_input_id' =
                 StoreReference(references_by_input_id, input,
                        Slice(input, reference_output, function, environment,
                              NoVariation, "provided"))
    /\ ref_index' = ref_index + 1
    /\ UNCHANGED <<backend_vars, inputs, variations, checks, all_slices, applied_inputs,
                   input_index, slices, run_call, evaluated, report, error, pc, direct_vars>>

\* Engine._build_references, an input whose reference is None: the call
\* backend.run(input["data"], cleanup_env=True, cleanup_fn=True).
BuildReferencesExecute ==
    /\ pc = "build_references"
    /\ ref_index <= Len(inputs)
    /\ GetReference(inputs[ref_index]) = None
    /\ snapshot' = [function |-> function, environment |-> environment]
    /\ run_call' = RunCall(inputs[ref_index].data, TRUE, TRUE, "build_references",
                            ref_index)
    /\ pc' = "run_compute"
    /\ UNCHANGED <<backend_vars, inputs, variations, checks, references_by_input_id,
                   all_slices, ref_index, applied_inputs, input_index, slices,
                   evaluated, report, error, direct_vars>>

\* A variant that also puts the executed reference slice on the list the
\* checks receive.
BuildReferencesStore_Accumulates ==
    /\ pc = "run_exit"
    /\ run_call.caller = "build_references"
    /\ IF Raises(run_call)
       THEN /\ error' = ErrBackend
            /\ pc' = "error"
            /\ UNCHANGED <<references_by_input_id, ref_index, all_slices>>
       ELSE LET slice == Slice(inputs[ref_index], run_call.output, snapshot.function,
                              snapshot.environment, NoVariation, "executed")
            IN  /\ references_by_input_id' =
                      StoreReference(references_by_input_id, inputs[ref_index], slice)
                /\ all_slices' = Append(all_slices, slice)
                /\ ref_index' = ref_index + 1
                /\ pc' = "build_references"
                /\ UNCHANGED error
    /\ UNCHANGED <<backend_vars, inputs, variations, checks, applied_inputs,
                   input_index, slices, snapshot, run_call, evaluated, report, direct_vars>>

\* Engine._build_references after backend.run: the error propagates, or
\* the executed reference slice is stored under the input's id.
BuildReferencesStore ==
    /\ pc = "run_exit"
    /\ run_call.caller = "build_references"
    /\ IF Raises(run_call)
       THEN /\ error' = ErrBackend
            /\ pc' = "error"
            /\ UNCHANGED <<references_by_input_id, ref_index>>
       ELSE /\ references_by_input_id' =
                 StoreReference(references_by_input_id, inputs[ref_index],
                        Slice(inputs[ref_index], run_call.output, snapshot.function,
                              snapshot.environment, NoVariation, "executed"))
            /\ ref_index' = ref_index + 1
            /\ pc' = "build_references"
            /\ UNCHANGED error
    /\ UNCHANGED <<backend_vars, inputs, variations, checks, all_slices, applied_inputs,
                   input_index, slices, snapshot, run_call, evaluated, report, direct_vars>>

\* Engine._build_references returns; Engine.run reaches the variation loop.
BuildReferencesReturn ==
    /\ pc = "build_references"
    /\ ref_index > Len(inputs)
    /\ pc' = "variations"
    /\ UNCHANGED <<backend_vars, engine_vars, run_call, evaluated, report, error, direct_vars>>

\* The head of one iteration of the variation loop: report.start_variation
\* and the locals of the pass.
StartPass(v, applied) ==
    /\ pc = "variations"
    /\ Len(variations) < MaxVariations
    /\ Len(variations) + Len(checks) < MaxEntries
    /\ variations' = Append(variations, v)
    /\ report' = Append(report, Event("start_variation", Len(variations), v.name,
                                      Len(applied), NoSeverity))
    /\ applied_inputs' = applied
    /\ input_index' = 1
    /\ slices' = <<>>
    /\ UNCHANGED <<base_environment, base_function, fn_seen, checks,
                   references_by_input_id, all_slices, ref_index, snapshot, run_call,
                   evaluated, direct_vars>>

\* A None entry of the variations list: the inputs pass through.
ApplyNoVariation ==
    /\ StartPass(NoVariation, inputs)
    /\ pc' = "run_variation"
    /\ UNCHANGED <<environment, function, env_applied, error, inputs>>

\* A variant in which vary works on the caller's list.
InputApplyLeaves_NoCopy(v, ins) == InputVary(v, ins).copied

\* The list the caller of InputVariation.apply holds afterwards: vary
\* writes into `copied = deepcopy(inputs)`.
InputApplyLeaves(v, ins) ==
    LET copied == DeepCopy(ins)
    IN  IF copied.shared THEN InputVary(v, copied.value).copied ELSE ins

\* InputVariation.apply
ApplyInputVariation ==
    \E w \in {x \in Variations : x.intent = "input"} :
      \E v \in VariationObjects(w, variations) :
        /\ StartPass(v, InputApply(v, inputs))
        /\ inputs' = InputApplyLeaves(v, inputs)
        /\ pc' = "run_variation"
        /\ UNCHANGED <<environment, function, env_applied, error>>

\* FunctionVariation.apply: backend.set_function(vary(copy of the current
\* function)); the inputs pass through.
ApplyFunctionVariation ==
    \E w \in {x \in Variations : x.intent = "function"} :
      \E v \in VariationObjects(w, variations) :
        /\ StartPass(v, inputs)
        /\ function' = set_function(VaryResult(v, function, "fn"))
        /\ pc' = "run_variation"
        /\ UNCHANGED <<environment, env_applied, error, inputs>>

\* EnvironmentVariation.apply: backend.set_environment(vary(copy of the
\* current environment)), which stores the merged environment and invokes
\* update_environment at once; update_environment may raise.
ApplyEnvironmentVariation ==
    \E w \in {x \in Variations : x.intent = "environment"}, raises \in BOOLEAN :
      \E v \in VariationObjects(w, variations) :
        /\ StartPass(v, inputs)
        /\ LET cfg == set_environment(VaryResult(v, environment, "env"))
           IN  /\ environment' = IF raises THEN cfg ELSE ApplyEnvironment(cfg)
               /\ env_applied' = Append(env_applied, [environment |-> cfg, t |-> Now + 1])
        /\ IF raises
           THEN error' = ErrBackend /\ pc' = "error"
           ELSE UNCHANGED error /\ pc' = "run_variation"
        /\ UNCHANGED <<function, inputs>>

\* Variants that request the cleanup after every input of the batch.
cleanup_function_EveryInput(is_last_input, intent) == intent = "function"
cleanup_environment_EveryInput(is_last_input, intent) == intent = "environment"

\* A variant that requests the function cleanup whatever the intent.
cleanup_function_AnyIntent(is_last_input, intent) == is_last_input

\* cleanup_function / cleanup_environment of Engine._run_variation
cleanup_function(is_last_input, intent) == is_last_input /\ intent = "function"
cleanup_environment(is_last_input, intent) == is_last_input /\ intent = "environment"

\* Engine._run_variation, one input: the cleanup flags, the snapshots and
\* the call of backend.run.
RunVariationInput ==
    /\ pc = "run_variation"
    /\ input_index <= Len(applied_inputs)
    /\ LET intent == variations[Len(variations)].intent
           is_last_input == input_index = Len(applied_inputs)
       IN  run_call' = RunCall(applied_inputs[input_index].data,
                               cleanup_environment(is_last_input, intent),
                               cleanup_function(is_last_input, intent),
                               "run_variation", input_index)
    /\ snapshot' = [function |-> function, environment |-> environment]
    /\ pc' = "run_compute"
    /\ UNCHANGED <<backend_vars, inputs, variations, checks, references_by_input_id,
                   all_slices, ref_index, applied_inputs, input_index, slices,
                   evaluated, report, error, direct_vars>>

\* A variant that reads the configuration of the slice after backend.run
\* has returned.
RunVariationAppend_SnapshotAfterRun ==
    /\ pc = "run_exit"
    /\ run_call.caller = "run_variation"
    /\ IF Raises(run_call)
       THEN /\ error' = ErrBackend
            /\ pc' = "error"
            /\ UNCHANGED <<slices, input_index>>
       ELSE /\ slices' = Append(slices,
                 Slice(applied_inputs[input_index], run_call.output, function,
                       environment, variations[Len(variations)], "executed"))
            /\ input_index' = input_index + 1
            /\ pc' = "run_variation"
            /\ UNCHANGED error
    /\ UNCHANGED <<backend_vars, inputs, variations, checks, references_by_input_id,
                   all_slices, ref_index, applied_inputs, snapshot, run_call, evaluated,
                   report, direct_vars>>

\* Engine._run_variation after backend.run: the error propagates, or the
\* slice is appended.
RunVariationAppend ==
    /\ pc = "run_exit"
    /\ run_call.caller = "run_variation"
    /\ IF Raises(run_call)
       THEN /\ error' = ErrBackend
            /\ pc' = "error"
            /\ UNCHANGED <<slices, input_index>>
       ELSE /\ slices' = Append(slices,
                 Slice(applied_inputs[input_index], run_call.output, snapshot.function,
                       snapshot.environment, variations[Len(variations)], "executed"))
            /\ input_index' = input_index + 1
            /\ pc' = "run_variation"
            /\ UNCHANGED error
    /\ UNCHANGED <<backend_vars, inputs, variations, checks, references_by_input_id,
                   all_slices, ref_index, applied_inputs, snapshot, run_call, evaluated,
                   report, direct_vars>>

\* A variant that holds the finish_variation calls back instead of making
\* them as the passes end.
FinishVariation_Buffered ==
    /\ pc = "run_variation"
    /\ input_index > Len(applied_inputs)
    /\ all_slices' = all_slices \o slices
    /\ pc' = "variations"
    /\ UNCHANGED <<backend_vars, inputs, direct_vars, variations, checks,
                   references_by_input_id, ref_index, applied_inputs, input_index, slices,
                   snapshot, run_call, evaluated, error, report>>

\* A variant that reports the number of declared inputs.
FinishVariation_CountsDeclared ==
    /\ pc = "run_variation"
    /\ input_index > Len(applied_inputs)
    /\ report' = Append(report, Event("finish_variation", Len(variations) - 1,
                                      variations[Len(variations)].name,
                                      Len(inputs), NoSeverity))
    /\ all_slices' = all_slices \o slices
    /\ pc' = "variations"
    /\ UNCHANGED <<backend_vars, inputs, variations, checks, references_by_input_id,
                   ref_index, applied_inputs, input_index, slices, snapshot, run_call,
                   evaluated, error, direct_vars>>

\* A variant that keeps the slices of the last pass only.
FinishVariation_KeepsLastPass ==
    /\ pc = "run_variation"
    /\ input_index > Len(applied_inputs)
    /\ report' = Append(report, Event("finish_variation", Len(variations) - 1,
                                      variations[Len(variations)].name,
                                      Len(applied_inputs), NoSeverity))
    /\ all_slices' = slices
    /\ pc' = "variations"
    /\ UNCHANGED <<backend_vars, inputs, variations, checks, references_by_input_id,
                   ref_index, applied_inputs, input_index, slices, snapshot, run_call,
                   evaluated, error, direct_vars>>

\* Engine._run_variation returns: report.finish_variation and
\* all_slices.extend(slices).
FinishVariation ==
    /\ pc = "run_variation"
    /\ input_index > Len(applied_inputs)
    /\ report' = Append(report, Event("finish_variation", Len(variations) - 1,
                                      variations[Len(variations)].name,
                                      Len(applied_inputs), NoSeverity))
    /\ all_slices' = all_slices \o slices
    /\ pc' = "variations"
    /\ UNCHANGED <<backend_vars, inputs, variations, checks, references_by_input_id,
                   ref_index, applied_inputs, input_index, slices, snapshot, run_call,
                   evaluated, error, direct_vars>>

\* The variations list is exhausted: the check loop begins.
VariationsDone ==
    /\ pc = "variations"
    /\ pc' = "checks"
    /\ UNCHANGED <<backend_vars, engine_vars, run_call, evaluated, report, error, direct_vars>>

\* A variant that lists the reference slices in the order of the inputs.
EngineReferences_InInputOrder(check) ==
    IF check.intent = "reference"
    THEN [i \in 1..Len(inputs) |-> references_by_input_id[inputs[i].id]]
    ELSE <<>>

\* The references list Engine.run builds for a REFERENCE check: the
\* reference slice found under the input id of every accumulated slice.
EngineReferences(check) ==
    IF check.intent = "reference"
    THEN [i \in 1..Len(all_slices) |-> references_by_input_id[input_id(all_slices[i])]]
    ELSE <<>>

\* The lookup references_by_input_id[slice.input_id] fails for some slice.
LookupFails(check) ==
    /\ check.intent = "reference"
    /\ \E i \in 1..Len(all_slices) :
          input_id(all_slices[i]) \notin DOMAIN references_by_input_id

\* One iteration of the check loop: report.start_check, the references,
\* check.evaluate, report.finish_check; an error ends the run.
RunCheck ==
    /\ pc = "checks"
    /\ Len(checks) < MaxChecks
    /\ Len(variations) + Len(checks) < MaxEntries
    /\ \E check \in Checks :
          LET started == Append(report, Event("start_check", Len(checks), check.name,
                                              Len(all_slices), NoSeverity))
          IN  /\ checks' = Append(checks, check)
              /\ IF LookupFails(check)
                 THEN /\ report' = started
                      /\ error' = ErrKey
                      /\ pc' = "error"
                      /\ UNCHANGED evaluated
                 ELSE LET references == EngineReferences(check)
                          result == Evaluate(check, all_slices, references)
                      IN  /\ evaluated' = Append(evaluated,
                                 [check |-> check, slices |-> all_slices,
                                  references |-> references, result |-> result,
                                  t |-> Now + 1])
                          /\ IF result.raised # None
                             THEN /\ report' = started
                                  /\ error' = result.raised
                                  /\ pc' = "error"
                             ELSE /\ report' = Append(started,
                                        [op |-> "finish_check", index |-> Len(checks),
                                         name |-> check.name,
                                         n_inputs |-> Len(all_slices),
                                         severity |-> result.severity,
                                         t |-> Now + 2])
                                  /\ UNCHANGED <<error, pc>>
    /\ UNCHANGED <<backend_vars, inputs, variations, references_by_input_id, all_slices,
                   ref_index, applied_inputs, input_index, slices, snapshot, run_call, direct_vars>>

\* The checks list is exhausted: Engine.run returns the report.
ReturnReport ==
    /\ pc = "checks"
    /\ pc' = "done"
    /\ UNCHANGED <<backend_vars, engine_vars, run_call, evaluated, report, error, direct_vars>>

Next ==
    \/ BuildReferencesProvided
    \/ BuildReferencesExecute
    \/ BuildReferencesStore
    \/ BuildReferencesReturn
    \/ ApplyNoVariation
    \/ ApplyInputVariation
    \/ ApplyFunctionVariation
    \/ ApplyEnvironmentVariation
    \/ RunVariationInput
    \/ RunVariationAppend
    \/ FinishVariation
    \/ VariationsDone
    \/ RunCheck
    \/ ReturnReport
    \/ BackendRunCompute
    \/ BackendRunFinally

Spec == Init /\ [][Next]_vars

\* ------------------------------------------------------------------ cli
\* The loop of cli.start: one backend and one Engine serve every run the
\* user starts from the menu; a run that ended in an error is reported
\* (`except Exception: ... continue`) and the loop goes on with the next
\* choice.  The next run has its own inputs, variations, checks and report;
\* the calls observed on the backend are counted from its start, after the
\* environment that is live.
CliNextRun ==
    /\ pc \in {"done", "error"}
    /\ Len(runs) + 1 < MaxRuns
    /\ runs' = Append(runs, [ended |-> pc, error |-> error, function |-> function,
                             environment |-> environment])
    /\ inputs' \in InputLists
    /\ variations' = <<>>
    /\ checks' = <<>>
    /\ references_by_input_id' = EmptyMap
    /\ all_slices' = <<>>
    /\ ref_index' = 1
    /\ applied_inputs' = <<>>
    /\ input_index' = 1
    /\ slices' = <<>>
    /\ snapshot' = NoSnapshot
    /\ run_call' = NoCall
    /\ evaluated' = <<>>
    /\ report' = <<>>
    /\ error' = None
    /\ env_applied' = <<[environment |-> Live, t |-> 0]>>
    /\ fn_seen' = <<>>
    /\ pc' = "build_references"
    /\ UNCHANGED <<base_environment, base_function, environment, function, merge_calls,
                   load_calls, backend_class, backend_calls>>

NextCli == Next \/ CliNextRun

SpecCli == Init /\ [][NextCli]_vars

\* ------------------------------------------------------------------ evaluate
\* Check.evaluate called directly, on any slices and any references.
MaxSlices == 3

\* Slices of variation passes and reference slices.
SliceSet ==
    {Slice([id |-> id, data |-> Data, reference |-> Missing], output, [fn |-> "base"],
           [env |-> "base"], v, "executed") :
        id \in Ids, output \in {Data, VariedData}, v \in {NoVariation, SetInputData}}
ReferenceSliceSet == {s \in SliceSet : s.variation = NoVariation}
\* The references a caller hands to evaluate: any list for a REFERENCE
\* check; the other checks discard the argument (`_ = references`) and
\* are handed the empty list.
ReferenceLists(check) ==
    IF check.intent = "reference" THEN SeqsUpTo(ReferenceSliceSet, MaxSlices) ELSE {<<>>}

InitEval ==
    /\ BackendInit
    /\ inputs = <<>>
    /\ variations = <<>>
    /\ checks = <<>>
    /\ references_by_input_id = EmptyMap
    /\ all_slices \in SeqsUpTo(SliceSet, MaxSlices)
    /\ ref_index = 1
    /\ applied_inputs = <<>>
    /\ input_index = 1
    /\ slices = <<>>
    /\ snapshot = NoSnapshot
    /\ run_call = NoCall
    /\ evaluated = <<>>
    /\ report = <<>>
    /\ error = None
    /\ merge_calls = <<>>
    /\ load_calls = <<>>
    /\ runs = <<>>
    /\ backend_calls = <<>>
    /\ pc = "evaluate"

\* check.evaluate(slices, references); the caller sees the result or the
\* error.
EvaluateDirect ==
    /\ pc = "evaluate"
    /\ \E check \in Checks : \E references \in ReferenceLists(check) :
          LET result == Evaluate(check, all_slices, references)
          IN  /\ checks' = Append(checks, check)
              /\ evaluated' = Append(evaluated,
                     [check |-> check, slices |-> all_slices,
                      references |-> references, result |-> result, t |-> Now])
              /\ error' = result.raised
    /\ pc' = "evaluated"
    /\ UNCHANGED <<backend_vars, inputs, variations, references_by_input_id, all_slices,
                   ref_index, applied_inputs, input_index, slices, snapshot, run_call,
                   report, direct_vars>>

NextEval == EvaluateDirect

SpecEval == InitEval /\ [][NextEval]_vars

\* ------------------------------------------------------------------ merge
\* Check.Severity.merge called directly, on any list of severities.
MaxSeverities == 4
Severities == {INFO, PASS, WARN, FAIL}

InitMerge ==
    /\ BackendInit
    /\ inputs = <<>>
    /\ variations = <<>>
    /\ checks = <<>>
    /\ references_by_input_id = EmptyMap
    /\ all_slices = <<>>
    /\ ref_index = 1
    /\ applied_inputs = <<>>
    /\ input_index = 1
    /\ slices = <<>>
    /\ snapshot = NoSnapshot
    /\ run_call = NoCall
    /\ evaluated = <<>>
    /\ report = <<>>
    /\ error = None
    /\ merge_calls = <<>>
    /\ load_calls = <<>>
    /\ runs = <<>>
    /\ backend_calls = <<>>
    /\ pc = "merge"

\* Check.Severity.merge(severities)
MergeDirect ==
    /\ pc = "merge"
    /\ \E severities \in SeqsUpTo(Severities, MaxSeverities) :
          merge_calls' = Append(merge_calls,
                                [severities |-> severities,
                                 result |-> SeverityMerge(severities)])
    /\ pc' = "merged"
    /\ UNCHANGED <<backend_vars, engine_vars, run_call, evaluated, report, error, backend_class,
                   backend_calls, load_calls, runs>>

NextMerge == MergeDirect

SpecMerge == InitMerge /\ [][NextMerge]_vars

\* ------------------------------------------------------------------ matches
\* MatchesBaseline evaluated directly on aligned pairs: slices of a
\* variation pass, and for each of them a reference slice of its input.
MatchOutputs == {Data, VariedData, Unencodable}
MatchSliceSet ==
    {Slice([id |-> id, data |-> Data, reference |-> Missing], output, [fn |-> "base"],
           [env |-> "base"], SetInputData, "executed") :
        id \in Ids, output \in MatchOutputs}

\* The lists of reference slices aligned with the slices sl.
AlignedReferences(sl) ==
    {[i \in 1..Len(sl) |-> Slice(sl[i].input, outputs[i], [fn |-> "base"],
                                 [env |-> "base"], NoVariation, "provided")] :
        outputs \in [1..Len(sl) -> MatchOutputs]}

InitMatches ==
    /\ BackendInit
    /\ inputs = <<>>
    /\ variations = <<>>
    /\ checks = <<>>
    /\ references_by_input_id = EmptyMap
    /\ all_slices \in SeqsUpTo(MatchSliceSet, MaxSlices)
    /\ ref_index = 1
    /\ applied_inputs = <<>>
    /\ input_index = 1
    /\ slices = <<>>
    /\ snapshot = NoSnapshot
    /\ run_call = NoCall
    /\ evaluated = <<>>
    /\ report = <<>>
    /\ error = None
    /\ merge_calls = <<>>
    /\ load_calls = <<>>
    /\ runs = <<>>
    /\ backend_calls = <<>>
    /\ pc = "matches"

\* MatchesBaseline().evaluate(slices, references)
MatchesDirect ==
    /\ pc = "matches"
    /\ \E references \in AlignedReferences(all_slices) :
          LET result == Evaluate(MatchesBaseline, all_slices, references)
          IN  /\ checks' = Append(checks, MatchesBaseline)
              /\ evaluated' = Append(evaluated,
                     [check |-> MatchesBaseline, slices |-> all_slices,
                      references |-> references, result |-> result, t |-> Now])
              /\ error' = result.raised
    /\ pc' = "matched"
    /\ UNCHANGED <<backend_vars, inputs, variations, references_by_input_id, all_slices,
                   ref_index, applied_inputs, input_index, slices, snapshot, run_call,
                   report, direct_vars>>

NextMatches == MatchesDirect

SpecMatches == InitMatches /\ [][NextMatches]_vars

\* ------------------------------------------------------------------ loader
\* Specification._load called directly on a block naming a class whose
\* constructor takes one parameter, `threshold`, with or without a
\* default, under any ambient configuration (os.environ).
ParamName == "threshold"
\* f"VIGIL_{param_name.upper()}"
Prefixed(param_name) == "VIGIL_THRESHOLD"

\* The texts an ambient variable may hold, and json.loads of a text: the
\* JSON value, or an error for a text that is not JSON.
EnvTexts == {"", "null", "123", "\"q\"", "abc"}
NotJson == "<JSONDecodeError>"
Loads(text) ==
    CASE text = "null" -> None
      [] text = "123" -> <<"int", "123">>
      [] text = "\"q\"" -> "q"
      [] OTHER -> NotJson

\* os.environ: the variables set, with their text.
Environs ==
    UNION {[names -> EnvTexts] : names \in SUBSET {ParamName, Prefixed(ParamName)}}

\* The parameters declared in the block (every key but `type`): none, the
\* parameter as null, the parameter with a value.
Blocks == {EmptyMap, Single(ParamName, None), Single(ParamName, "declared")}

\* A variant of _env that takes every variable that is set.
Env_AnySet(environ, key) ==
    IF key \notin DOMAIN environ THEN None
    ELSE IF Loads(environ[key]) = NotJson THEN environ[key] ELSE Loads(environ[key])

\* Specification._env: None for a variable that is not set or empty, else
\* the JSON value of its text, else the text itself.
Env(environ, key) ==
    IF key \notin DOMAIN environ THEN None
    ELSE IF environ[key] = "" THEN None
    ELSE IF Loads(environ[key]) = NotJson THEN environ[key] ELSE Loads(environ[key])

\* A variant that looks the ambient configuration up first.
Accepted_AmbientFirst(params, environ) ==
    IF Env(environ, ParamName) # None
    THEN [source |-> "name", value |-> Env(environ, ParamName)]
    ELSE IF Env(environ, Prefixed(ParamName)) # None
    THEN [source |-> "prefix", value |-> Env(environ, Prefixed(ParamName))]
    ELSE IF ParamName \in DOMAIN params
    THEN [source |-> "declared", value |-> params[ParamName]]
    ELSE [source |-> None, value |-> Missing]

\* The loop of _load over the parameters of the signature: what is
\* accepted for the parameter, and where it was found.
Accepted(params, environ) ==
    IF ParamName \in DOMAIN params
    THEN [source |-> "declared", value |-> params[ParamName]]
    ELSE IF Env(environ, ParamName) # None
    THEN [source |-> "name", value |-> Env(environ, ParamName)]
    ELSE IF Env(environ, Prefixed(ParamName)) # None
    THEN [source |-> "prefix", value |-> Env(environ, Prefixed(ParamName))]
    ELSE [source |-> None, value |-> Missing]

ErrMissingParameter == "TypeError: missing required argument"
DefaultValue == "default"

\* cls(**accepted): the object, or the TypeError of a required parameter
\* that was not accepted.
Load(params, environ, has_default) ==
    LET a == Accepted(params, environ)
    IN  IF a.source # None THEN [raised |-> None, source |-> a.source, value |-> a.value]
        ELSE IF has_default
        THEN [raised |-> None, source |-> "default", value |-> DefaultValue]
        ELSE [raised |-> ErrMissingParameter, source |-> None, value |-> Missing]

InitLoad ==
    /\ BackendInit
    /\ inputs = <<>>
    /\ variations = <<>>
    /\ checks = <<>>
    /\ references_by_input_id = EmptyMap
    /\ all_slices = <<>>
    /\ ref_index = 1
    /\ applied_inputs = <<>>
    /\ input_index = 1
    /\ slices = <<>>
    /\ snapshot = NoSnapshot
    /\ run_call = NoCall
    /\ evaluated = <<>>
    /\ report = <<>>
    /\ error = None
    /\ merge_calls = <<>>
    /\ load_calls = <<>>
    /\ runs = <<>>
    /\ backend_calls = <<>>
    /\ pc = "load"

\* Specification._load("check", block) while the specification is set up,
\* before Engine.run is called.
LoadDirect ==
    /\ pc = "load"
    /\ \E params \in Blocks, environ \in Environs, has_default \in BOOLEAN :
          LET result == Load(params, environ, has_default)
          IN  /\ load_calls' = Append(load_calls,
                     [params |-> params, environ |-> environ,
                      has_default |-> has_default, result |-> result])
              /\ error' = result.raised
    /\ pc' = "loaded"
    /\ UNCHANGED <<backend_vars, engine_vars, run_call, evaluated, report, merge_calls,
                   backend_class, backend_calls, runs>>

NextLoad == LoadDirect

SpecLoad == InitLoad /\ [][NextLoad]_vars

\* ------------------------------------------------------------------ repeat
\* Specification._load_variations.  An entry of the `variations` section
\* is None / "none", the name of a variation type, or a `repeat` block with
\* `times` (when has_times) and `do`, a list of entries.
MaxTimes == 2
MaxDo == 2
VariationTypes == {"A", "B"}
Entry(type, has_times, times, do) ==
    [type |-> type, has_times |-> has_times, times |-> times, do |-> do]
SimpleEntries == {Entry(t, FALSE, 0, <<>>) : t \in VariationTypes \cup {None}}
RepeatEntries ==
    {Entry("repeat", TRUE, times, do) :
        times \in -1..MaxTimes, do \in SeqsUpTo(SimpleEntries, MaxDo)}
    \cup {Entry("repeat", FALSE, 0, do) : do \in SeqsUpTo(SimpleEntries, MaxDo)}
Entries == SimpleEntries \cup RepeatEntries
\* The section as _section returns it: a list of at least one block.
RawVariations == {<<b>> : b \in Entries} \cup {<<b, c>> : b \in Entries, c \in Entries}

ErrRepeatTimes == "ValueError: repeat.times must be > 0"
ErrRepeatDo == "ValueError: repeat.do must be a non-empty list"

\* int(entry.get("times", 1))
RepeatTimes(entry) == IF entry.has_times THEN entry.times ELSE 1

\* `if times < 0: raise ValueError(...)`
TimesRejected(times) == times < 0

\* inner * times: the empty list for a count of zero or less.
RECURSIVE Repeated(_, _)
Repeated(inner, times) ==
    IF times <= 0 THEN <<>> ELSE inner \o Repeated(inner, times - 1)

\* What resolving raised (or None) and the list resolved.
Resolved(raised, list) == [raised |-> raised, list |-> list]

\* resolve(entry), and the list the resolved entries of a list extend in
\* order, up to the first one that raises.
RECURSIVE Resolve(_), ResolveAll(_)
Resolve(entry) ==
    IF entry.type = None THEN Resolved(None, <<None>>)
    ELSE IF entry.type # "repeat" THEN Resolved(None, <<entry.type>>)
    ELSE IF TimesRejected(RepeatTimes(entry)) THEN Resolved(ErrRepeatTimes, <<>>)
    ELSE IF entry.do = <<>> THEN Resolved(ErrRepeatDo, <<>>)
    ELSE LET inner == ResolveAll(entry.do)
         IN  IF inner.raised # None THEN inner
             ELSE Resolved(None, Repeated(inner.list, RepeatTimes(entry)))
ResolveAll(entries) ==
    IF entries = <<>> THEN Resolved(None, <<>>)
    ELSE LET first == Resolve(Head(entries))
             rest == ResolveAll(Tail(entries))
         IN  IF first.raised # None THEN first
             ELSE IF rest.raised # None THEN rest
             ELSE Resolved(None, first.list \o rest.list)

\* _load_variations: the resolved blocks, and [None] when they are empty.
LoadVariations(raw) ==
    LET r == ResolveAll(raw)
    IN  [raised |-> r.raised, resolved |-> r.list,
         variations |-> IF r.raised # None THEN <<>>
                        ELSE IF r.list = <<>> THEN <<None>> ELSE r.list]

InitRepeat ==
    /\ BackendInit
    /\ inputs = <<>>
    /\ variations = <<>>
    /\ checks = <<>>
    /\ references_by_input_id = EmptyMap
    /\ all_slices = <<>>
    /\ ref_index = 1
    /\ applied_inputs = <<>>
    /\ input_index = 1
    /\ slices = <<>>
    /\ snapshot = NoSnapshot
    /\ run_call = NoCall
    /\ evaluated = <<>>
    /\ report = <<>>
    /\ error = None
    /\ merge_calls = <<>>
    /\ load_calls = <<>>
    /\ runs = <<>>
    /\ backend_calls = <<>>
    /\ pc = "load_variations"

\* Specification._load_variations while the specification is set up.
LoadVariationsDirect ==
    /\ pc = "load_variations"
    /\ \E raw \in RawVariations :
          LET result == LoadVariations(raw)
          IN  /\ load_calls' = Append(load_calls,
                     [raw |-> raw, blocks |-> [i \in 1..Len(raw) |-> Resolve(raw[i])],
                      result |-> result])
              /\ error' = result.raised
    /\ pc' = "loaded"
    /\ UNCHANGED <<backend_vars, engine_vars, run_call, evaluated, report, merge_calls,
                   backend_class, backend_calls, runs>>

NextRepeat == LoadVariationsDirect

SpecRepeat == InitRepeat /\ [][NextRepeat]_vars

\* ------------------------------------------------------------------ backend
\* The Backend called directly: constructed, then set_environment,
\* set_function, run, reset and snapshot in any order; the caller goes on
\* after a call that raised.
MaxCalls == 3

\* The key of the base configuration the callers overwrite.
EnvironmentKey(class) ==
    CASE class = "DatsLlm" -> "project_name"
      [] class = "SshWhisper" -> "host"
      [] OTHER -> "env"
FunctionKey(class) ==
    CASE class = "DatsLlm" -> "llm_job_type"
      [] class = "SshWhisper" -> "endpoint"
      [] OTHER -> "fn"

\* The maps handed to set_environment and set_function: a key of the base
\* configuration, a new key, both.
EnvironmentPartials(class) ==
    {Single(EnvironmentKey(class), "var"), Single("extra", "x")}
FunctionPartials(class) ==
    {Single(FunctionKey(class), "var"), Single("extra", "x"),
     MapUpdate(Single(FunctionKey(class), "var"), Single("extra", "x"))}

\* What a caller can observe of the backend.
BackendState ==
    [function |-> function, environment |-> environment,
     base_function |-> base_function, base_environment |-> base_environment,
     applied |-> Len(env_applied), computed |-> Len(fn_seen)]

\* A call made directly on the backend: the operation, its argument,
\* whether it raised, and the backend before and after it.
BackendCall(op, arg, raised, before, after) ==
    [op |-> op, arg |-> arg, raised |-> raised, before |-> before, after |-> after]

\* No backend has been constructed yet.
InitBackendOf(classes) ==
    /\ backend_class \in classes
    /\ base_environment = EmptyMap
    /\ base_function = EmptyMap
    /\ environment = EmptyMap
    /\ function = EmptyMap
    /\ env_applied = <<>>
    /\ fn_seen = <<>>
    /\ inputs = <<>>
    /\ variations = <<>>
    /\ checks = <<>>
    /\ references_by_input_id = EmptyMap
    /\ all_slices = <<>>
    /\ ref_index = 1
    /\ applied_inputs = <<>>
    /\ input_index = 1
    /\ slices = <<>>
    /\ snapshot = NoSnapshot
    /\ run_call = NoCall
    /\ evaluated = <<>>
    /\ report = <<>>
    /\ error = None
    /\ merge_calls = <<>>
    /\ load_calls = <<>>
    /\ runs = <<>>
    /\ backend_calls = <<>>
    /\ pc = "construct"

InitBackend == InitBackendOf({"TrackingBackend"})

\* A variant of the constructor that leaves the apply step out.
Construct_NoApply ==
    /\ pc = "construct"
    /\ base_environment' = Kept(DeepCopy(BaseEnvironment(backend_class)))
    /\ base_function' = Kept(DeepCopy(BaseFunction(backend_class)))
    /\ function' = base_function'
    /\ environment' = base_environment'
    /\ backend_calls' = Append(backend_calls,
          BackendCall("construct", base_environment', FALSE, BackendState,
                      [BackendState EXCEPT !.function = function',
                                           !.environment = environment',
                                           !.base_function = base_function',
                                           !.base_environment = base_environment']))
    /\ pc' = "backend"
    /\ UNCHANGED <<env_applied, fn_seen, engine_vars, run_call, evaluated, report, error,
                   merge_calls, load_calls, runs, backend_class>>

\* Backend.__init__: the base maps are deep copies of the arguments (into
\* which the caller writes afterwards), the current maps deep copies of
\* the base maps, and update_environment is called once with a deep copy
\* of the current environment; when it raises no backend is constructed.
Construct ==
    /\ pc = "construct"
    /\ base_environment' = Kept(DeepCopy(BaseEnvironment(backend_class)))
    /\ base_function' = Kept(DeepCopy(BaseFunction(backend_class)))
    /\ function' = base_function'
    /\ env_applied' = Append(env_applied, [environment |-> base_environment', t |-> Now])
    /\ \E raises \in BOOLEAN :
          LET handed == DeepCopy(base_environment')
              after == IF raises THEN base_environment'
                       ELSE UpdateEnvironment(backend_class,
                                              AfterMutation(base_environment', handed),
                                              handed.value, base_environment')
          IN  /\ environment' = after
              /\ backend_calls' = Append(backend_calls,
                    BackendCall("construct", base_environment', raises, BackendState,
                                [BackendState EXCEPT !.function = function',
                                                     !.environment = after,
                                                     !.base_function = base_function',
                                                     !.base_environment = base_environment',
                                                     !.applied = Len(env_applied')]))
              /\ pc' = IF raises THEN "failed" ELSE "backend"
    /\ UNCHANGED <<fn_seen, engine_vars, run_call, evaluated, report, error, merge_calls, load_calls, runs,
                   backend_class>>

\* The caller is free to make its next call.
CallerIdle == pc = "backend" /\ Len(backend_calls) <= MaxCalls

\* A variant of set_environment that stores the map without applying it.
CallSetEnvironment_NoApply ==
    /\ CallerIdle
    /\ \E partial \in EnvironmentPartials(backend_class) :
          /\ environment' = set_environment(partial)
          /\ backend_calls' = Append(backend_calls,
                BackendCall("set_environment", partial, FALSE, BackendState,
                            [BackendState EXCEPT !.environment = environment']))
    /\ UNCHANGED <<base_environment, base_function, function, fn_seen, env_applied,
                   engine_vars, run_call, evaluated, report, error, merge_calls, load_calls, runs,
                   backend_class, pc>>

\* backend.set_environment(partial): the merged map is stored, then
\* update_environment is called with a deep copy of it.
CallSetEnvironment ==
    /\ CallerIdle
    /\ \E partial \in EnvironmentPartials(backend_class), raises \in BOOLEAN :
          LET cfg == set_environment(partial)
              after == IF raises THEN cfg ELSE ApplyEnvironment(cfg)
          IN  /\ environment' = after
              /\ env_applied' = Append(env_applied, [environment |-> cfg, t |-> Now])
              /\ backend_calls' = Append(backend_calls,
                    BackendCall("set_environment", partial, raises, BackendState,
                                [BackendState EXCEPT !.environment = after,
                                                     !.applied = Len(env_applied')]))
    /\ UNCHANGED <<base_environment, base_function, function, fn_seen, engine_vars,
                   run_call, evaluated, report, error, merge_calls, load_calls, runs, backend_class, pc>>

\* backend.set_function(partial)
CallSetFunction ==
    /\ CallerIdle
    /\ \E partial \in FunctionPartials(backend_class) :
          /\ function' = set_function(partial)
          /\ backend_calls' = Append(backend_calls,
                BackendCall("set_function", partial, FALSE, BackendState,
                            [BackendState EXCEPT !.function = function']))
    /\ UNCHANGED <<base_environment, base_function, environment, env_applied, fn_seen,
                   engine_vars, run_call, evaluated, report, error, merge_calls, load_calls, runs,
                   backend_class, pc>>

\* A variant of reset that restores the function configuration only.
CallReset_FunctionOnly ==
    /\ CallerIdle
    /\ function' = base_function
    /\ backend_calls' = Append(backend_calls,
          BackendCall("reset", None, FALSE, BackendState,
                      [BackendState EXCEPT !.function = function']))
    /\ UNCHANGED <<base_environment, base_function, environment, env_applied, fn_seen,
                   engine_vars, run_call, evaluated, report, error, merge_calls, load_calls, runs,
                   backend_class, pc>>

\* backend.reset()
CallReset ==
    /\ CallerIdle
    /\ function' = base_function
    /\ env_applied' = Append(env_applied, [environment |-> base_environment, t |-> Now])
    /\ \E raises \in BOOLEAN :
          LET after == IF raises THEN base_environment
                       ELSE ApplyEnvironment(base_environment)
          IN  /\ environment' = after
              /\ backend_calls' = Append(backend_calls,
                    BackendCall("reset", None, raises, BackendState,
                                [BackendState EXCEPT !.function = function',
                                                     !.environment = after,
                                                     !.applied = Len(env_applied')]))
    /\ UNCHANGED <<base_environment, base_function, fn_seen, engine_vars, run_call,
                   evaluated, report, error, merge_calls, load_calls, runs, backend_class, pc>>

\* backend.snapshot(): deep copies of the current maps; the caller writes
\* into the maps it is handed.
CallSnapshot ==
    /\ CallerIdle
    /\ LET handed_function == DeepCopy(function)
           handed_environment == DeepCopy(environment)
       IN  /\ snapshot' = [function |-> handed_function.value,
                           environment |-> handed_environment.value]
           /\ function' = AfterMutation(function, handed_function)
           /\ environment' = AfterMutation(environment, handed_environment)
           /\ backend_calls' = Append(backend_calls,
                 BackendCall("snapshot", None, FALSE, BackendState,
                             [BackendState EXCEPT !.function = function',
                                                  !.environment = environment']))
    /\ UNCHANGED <<base_environment, base_function, env_applied, fn_seen, inputs,
                   variations, checks, references_by_input_id, all_slices, ref_index,
                   applied_inputs, input_index, slices, run_call, evaluated, report, error,
                   merge_calls, load_calls, runs, backend_class, pc>>

\* backend.run(input, cleanup_env, cleanup_fn): the call enters the try
\* block.
CallRun ==
    /\ CallerIdle
    /\ \E cleanup_env \in BOOLEAN, cleanup_fn \in BOOLEAN :
          /\ run_call' = RunCall(Data, cleanup_env, cleanup_fn, "caller",
                                 Len(backend_calls) + 1)
          /\ backend_calls' = Append(backend_calls,
                BackendCall("run", [input |-> Data, cleanup_env |-> cleanup_env,
                                    cleanup_fn |-> cleanup_fn],
                            FALSE, BackendState, BackendState))
    /\ pc' = "run_compute"
    /\ UNCHANGED <<backend_vars, engine_vars, evaluated, report, error, merge_calls, load_calls, runs,
                   backend_class>>

\* backend.run returns or raises to the caller, who still holds the input
\* it passed.
ReturnRun ==
    /\ pc = "run_exit"
    /\ run_call.caller = "caller"
    /\ backend_calls' = [backend_calls EXCEPT
          ![Len(backend_calls)].raised = Raises(run_call),
          ![Len(backend_calls)].after = BackendState]
    /\ pc' = "backend"
    /\ UNCHANGED <<backend_vars, engine_vars, run_call, evaluated, report, error,
                   merge_calls, load_calls, runs, backend_class>>

NextBackend ==
    \/ Construct
    \/ CallSetEnvironment
    \/ CallSetFunction
    \/ CallReset
    \/ CallSnapshot
    \/ CallRun
    \/ BackendRunCompute
    \/ BackendRunFinally
    \/ ReturnRun

SpecBackend == InitBackend /\ [][NextBackend]_vars

\* The same calls on a backend of any class of the repository.
InitStudies == InitBackendOf(BackendClasses)

SpecStudies == InitStudies /\ [][NextBackend]_vars

\* ------------------------------------------------------------------ properties
AtBase == environment = base_environment /\ function = base_function

CurrentVariation == variations[Len(variations)]

\* Engine.run is inside a variation pass (between apply and the return of
\* _run_variation).
InPass ==
    \/ pc = "run_variation"
    \/ pc \in {"run_compute", "run_finally", "run_exit"} /\ run_call.caller = "run_variation"

\* The configuration a FUNCTION / ENVIRONMENT variation leaves when it is
\* applied to the base configuration.
MutatedFunction(v) == MapUpdate(base_function, VaryResult(v, base_function, "fn"))
MutatedEnvironment(v) == MapUpdate(base_environment, VaryResult(v, base_environment, "env"))

\* The compute calls of pass p, and of reference construction for input i.
PassComputeCalls(p) ==
    LET OfPass(c) == c.caller = "run_variation" /\ c.pass = p
    IN  SelectSeq(fn_seen, OfPass)
RefComputeCalls(i) ==
    LET OfInput(c) == c.caller = "build_references" /\ c.index = i
    IN  SelectSeq(fn_seen, OfInput)

\* The time of report.start_variation of pass p, and the calls of
\* update_environment made from then until the next pass starts.
StartTime(p) ==
    LET k == CHOOSE j \in 1..Len(report) :
                 report[j].op = "start_variation" /\ report[j].index = p - 1
    IN  report[k].t
PassEnvCalls(p) ==
    LET OfPass(e) == /\ e.t > StartTime(p)
                     /\ p = Len(variations) \/ e.t < StartTime(p + 1)
    IN  SelectSeq(env_applied, OfPass)

\* C1: after any Engine.run that returns, the backend's current
\* environment equals its base environment and its current function its
\* base function.
C1_ReturnedRunIsAtBase == pc = "done" => AtBase

\* C2: when compute raises for any input of a FUNCTION- or ENVIRONMENT-
\* intent batch, the current function and environment equal their base
\* values at the moment the error is surfaced to the caller of Engine.run.
C2_ErrorSurfacesAtBase ==
    (/\ pc = "error"
     /\ run_call.caller = "run_variation"
     /\ run_call.raised
     /\ CurrentVariation.intent \in {"function", "environment"})
    => AtBase

\* C3: at the start of every variation pass (the head of the variation
\* loop, before apply) and at the start of the check phase the backend's
\* (environment, function) pair is the base pair, for every batch size.
C3_PassStartsAtBase == pc \in {"variations", "checks"} => AtBase

\* C4: in a FUNCTION-intent pass over n >= 1 inputs every compute call
\* receives the mutated function, the current function stays the mutated
\* one until the last input has been processed, and it is the base
\* function from then on; the mutated function of SetFn is not the base.
C4_FunctionHeldOverBatch ==
    /\ \A k \in 1..Len(fn_seen) :
          (fn_seen[k].caller = "run_variation"
              /\ variations[fn_seen[k].pass].intent = "function")
          => fn_seen[k].function = MutatedFunction(variations[fn_seen[k].pass])
    /\ (InPass /\ CurrentVariation.intent = "function" /\ Len(applied_inputs) >= 1)
       => IF \/ pc = "run_exit" /\ run_call.index = Len(applied_inputs)
             \/ pc = "run_variation" /\ input_index > Len(applied_inputs)
          THEN function = base_function
          ELSE function = MutatedFunction(CurrentVariation)
    /\ MutatedFunction(SetFn) # base_function

C4_Witness ==
    /\ pc = "run_exit"
    /\ run_call.caller = "run_variation"
    /\ CurrentVariation = SetFn
    /\ Len(applied_inputs) = MaxInputs
    /\ run_call.index = Len(applied_inputs)
    /\ Len(PassComputeCalls(Len(variations))) = Len(applied_inputs)
    /\ function = base_function

\* The last input of pass p has been processed: its compute call and the
\* finally block of its Backend.run are over.
LastInputProcessed(p) ==
    /\ Len(PassComputeCalls(p)) = Len(inputs)
    /\ ~(p = Len(variations) /\ pc = "run_finally")

\* C5: in an ENVIRONMENT-intent pass over n >= 1 inputs update_environment
\* is invoked with the mutated environment when the variation is applied,
\* before every compute call of the pass, and not again until the last
\* input has been processed; it is then invoked a second and last time,
\* with the base environment, after every compute call of the pass.
C5_EnvironmentAppliedTwice ==
    \A p \in 1..Len(variations) :
        (variations[p].intent = "environment" /\ Len(inputs) >= 1)
        => LET calls == PassEnvCalls(p)
               computes == PassComputeCalls(p)
           IN  /\ Len(calls) >= 1
               /\ calls[1].environment = MutatedEnvironment(variations[p])
               /\ \A k \in 1..Len(computes) : calls[1].t < computes[k].t
               /\ IF LastInputProcessed(p)
                  THEN /\ Len(calls) = 2
                       /\ calls[2].environment = base_environment
                       /\ \A k \in 1..Len(computes) : computes[k].t < calls[2].t
                  ELSE Len(calls) = 1

C5_Witness ==
    /\ pc = "run_variation"
    /\ CurrentVariation = SetEnv
    /\ Len(inputs) = MaxInputs
    /\ input_index > Len(applied_inputs)
    /\ Len(PassComputeCalls(Len(variations))) = MaxInputs
    /\ Len(PassEnvCalls(Len(variations))) = 2

Handled(i) == i < ref_index
Retained(i) == Handled(i) /\ \A j \in (i + 1)..(ref_index - 1) : inputs[j].id # inputs[i].id

\* C7 as stated: an input that carries a declared reference (null
\* included) is never computed and its reference slice's output is the
\* declared value; an input without one is computed exactly once, with
\* both cleanup flags true.
C7_DeclaredReferenceIsNeverComputed ==
    \A i \in 1..Len(inputs) :
        /\ inputs[i].reference # Missing =>
              /\ RefComputeCalls(i) = <<>>
              /\ Retained(i) =>
                    references_by_input_id[inputs[i].id].output = inputs[i].reference
        /\ (inputs[i].reference = Missing /\ Handled(i)) =>
              /\ Len(RefComputeCalls(i)) = 1
              /\ RefComputeCalls(i)[1].cleanup_env /\ RefComputeCalls(i)[1].cleanup_fn

\* C7 amended: the same for a declared reference that is not null; an
\* input whose reference is null or not declared is computed exactly
\* once, with both cleanup flags true.
C7_NonNullReferenceIsNeverComputed ==
    \A i \in 1..Len(inputs) :
        /\ inputs[i].reference \notin {Missing, None} =>
              /\ RefComputeCalls(i) = <<>>
              /\ Retained(i) =>
                    /\ references_by_input_id[inputs[i].id].output = inputs[i].reference
                    /\ references_by_input_id[inputs[i].id].source = "provided"
        /\ (inputs[i].reference \in {Missing, None} /\ Handled(i)) =>
              /\ Len(RefComputeCalls(i)) = 1
              /\ RefComputeCalls(i)[1].cleanup_env /\ RefComputeCalls(i)[1].cleanup_fn
              /\ RefComputeCalls(i)[1].data = inputs[i].data

C7_Witness ==
    /\ pc = "variations"
    /\ Len(inputs) = MaxInputs
    /\ inputs[1].reference = VariedData
    /\ inputs[Len(inputs)].reference = None
    /\ RefComputeCalls(1) = <<>>
    /\ Len(RefComputeCalls(Len(inputs))) = 1

\* Reference construction is over: every input has been handled.
ReferencesBuilt == ref_index > Len(inputs)

DistinctIds == \A i, j \in 1..Len(inputs) : inputs[i].id = inputs[j].id => i = j

\* C8 as stated: after reference construction the reference map holds one
\* entry per input, and the entry under an input's id was built from it.
C8_OneReferencePerInput ==
    ReferencesBuilt =>
        /\ Cardinality(DOMAIN references_by_input_id) = Len(inputs)
        /\ \A i \in 1..Len(inputs) :
              references_by_input_id[inputs[i].id].input = inputs[i]

\* C8 amended: after reference construction the reference map holds one
\* entry per distinct input id, built from the last input that carries the
\* id; when the ids are pairwise distinct that is one entry per input,
\* each built from its own input.
C8_OneReferencePerId ==
    ReferencesBuilt =>
        /\ DOMAIN references_by_input_id = {inputs[i].id : i \in 1..Len(inputs)}
        /\ \A i \in 1..Len(inputs) :
              (\A j \in (i + 1)..Len(inputs) : inputs[j].id # inputs[i].id)
              => /\ references_by_input_id[inputs[i].id].input = inputs[i]
                 /\ references_by_input_id[inputs[i].id].variation = NoVariation
        /\ DistinctIds =>
              /\ Cardinality(DOMAIN references_by_input_id) = Len(inputs)
              /\ \A i \in 1..Len(inputs) :
                    references_by_input_id[inputs[i].id].input = inputs[i]

C8_Witness ==
    /\ pc = "variations"
    /\ Len(inputs) = MaxInputs
    /\ DistinctIds
    /\ Cardinality(DOMAIN references_by_input_id) = MaxInputs

\* C9: for every REFERENCE check the references list the Engine passes to
\* evaluate is as long as the slice list and aligned with it position by
\* position, whatever the variations were; the Engine never triggers the
\* count-mismatch or the alignment error.
C9_EngineReferencesAligned ==
    /\ \A k \in 1..Len(evaluated) :
          evaluated[k].check.intent = "reference" =>
              /\ Len(evaluated[k].references) = Len(evaluated[k].slices)
              /\ \A i \in 1..Len(evaluated[k].slices) :
                    input_id(evaluated[k].references[i]) = input_id(evaluated[k].slices[i])
              /\ evaluated[k].slices = all_slices
    /\ error \notin {ErrCount, ErrAlignment}

C9_Witness ==
    \E k \in 1..Len(evaluated) :
        /\ evaluated[k].check.intent = "reference"
        /\ evaluated[k].result.raised = None
        /\ \E p \in 1..Len(variations) : variations[p] = DropFirst
        /\ Len(evaluated[k].slices) > Len(inputs)
        /\ Len(inputs) = MaxInputs

\* C10: ReferenceCheck.evaluate raises when the numbers of slices and of
\* references differ, before check has been invoked for any pair.
C10_CountMismatchRaisesFirst ==
    \A k \in 1..Len(evaluated) :
        (evaluated[k].check.intent = "reference"
            /\ Len(evaluated[k].slices) # Len(evaluated[k].references))
        => /\ evaluated[k].result.raised # None
           /\ evaluated[k].result.calls = <<>>
           /\ error = evaluated[k].result.raised

C10_Witness ==
    /\ pc = "evaluated"
    /\ evaluated[1].check.intent = "reference"
    /\ Len(evaluated[1].slices) = MaxSlices
    /\ Len(evaluated[1].references) = 1
    /\ input_id(evaluated[1].slices[1]) = input_id(evaluated[1].references[1])
    /\ evaluated[1].result.raised = ErrCount
    /\ evaluated[1].result.calls = <<>>

\* The positions at which a slice and the reference at the same position
\* carry different input ids.
Misaligned(e) ==
    {i \in 1..Len(e.slices) : input_id(e.slices[i]) # input_id(e.references[i])}

\* C11: ReferenceCheck.evaluate pairs slices and references by position;
\* at the first position where the input ids differ it raises the
\* alignment error, check has been invoked for the pairs before that
\* position only, and no (severity, annotation) result is returned.
C11_MisalignmentRaisesAtFirstPair ==
    \A k \in 1..Len(evaluated) :
        LET e == evaluated[k]
        IN  (/\ e.check.intent = "reference"
             /\ e.slices # <<>>
             /\ Len(e.slices) = Len(e.references)
             /\ Misaligned(e) # {})
            => LET first == CHOOSE i \in Misaligned(e) : \A j \in Misaligned(e) : i <= j
               IN  /\ e.result.raised = ErrAlignment
                   /\ e.result.calls = [i \in 1..(first - 1) |-> i]
                   /\ e.result.severity = NoSeverity
                   /\ e.result.annotation = EmptyMap
                   /\ error = ErrAlignment

C11_Witness ==
    /\ pc = "evaluated"
    /\ evaluated[1].check.intent = "reference"
    /\ Len(evaluated[1].slices) = MaxSlices
    /\ Len(evaluated[1].references) = MaxSlices
    /\ Misaligned(evaluated[1]) = {2}
    /\ evaluated[1].result.raised = ErrAlignment
    /\ evaluated[1].result.calls = <<1>>

\* C12: UnaryCheck.evaluate, ReferenceCheck.evaluate and
\* GroupCheck.evaluate each raise when they are given no slice: none
\* returns INFO or any other severity, and check is not invoked.
C12_NoSlicesRaises ==
    \A k \in 1..Len(evaluated) :
        evaluated[k].slices = <<>>
        => /\ evaluated[k].result.raised = ErrNoSlices
           /\ evaluated[k].result.calls = <<>>
           /\ evaluated[k].result.severity = NoSeverity
           /\ error = ErrNoSlices

C12_Witness ==
    /\ pc = "evaluated"
    /\ evaluated[1].check = WerIsUnder
    /\ evaluated[1].slices = <<>>
    /\ evaluated[1].result.raised = ErrNoSlices
    /\ error = ErrNoSlices

\* The input ids of the slices handed to an evaluate call, the positions
\* of the slices of one id, and the slices at these positions in order.
SliceInputIds(e) == {input_id(e.slices[i]) : i \in 1..Len(e.slices)}
PositionsOf(e, id) == {i \in 1..Len(e.slices) : input_id(e.slices[i]) = id}
SlicesOf(e, id) ==
    LET OfId(s) == input_id(s) = id
    IN  SelectSeq(e.slices, OfId)
InSkipped(e, id) ==
    \E j \in 1..Len(e.result.annotation.skipped) : e.result.annotation.skipped[j] = id
\* The invocations of check on slices of the id.
CallsOn(e, id) ==
    {c \in 1..Len(e.result.calls) :
        \E j \in 1..Len(e.result.calls[c]) : e.result.calls[c][j] \in PositionsOf(e, id)}

\* C13: for GroupCheck.evaluate over a non-empty slice list, an input id
\* with exactly one slice is not a key of `groups`, is in `skipped`, and
\* check is not invoked on its group; an input id with two or more slices
\* is a key of `groups`, is not in `skipped`, and check is invoked once on
\* its slices.
C13_SingletonGroupsAreSkipped ==
    \A k \in 1..Len(evaluated) :
        LET e == evaluated[k]
        IN  (e.check.intent = "group" /\ e.slices # <<>>)
            => /\ e.result.raised = None
               /\ \A id \in SliceInputIds(e) :
                     IF Cardinality(PositionsOf(e, id)) = 1
                     THEN /\ id \notin DOMAIN e.result.annotation.groups
                          /\ InSkipped(e, id)
                          /\ CallsOn(e, id) = {}
                     ELSE /\ id \in DOMAIN e.result.annotation.groups
                          /\ ~InSkipped(e, id)
                          /\ Cardinality(CallsOn(e, id)) = 1
                          /\ \A c \in CallsOn(e, id) :
                                {e.result.calls[c][j] : j \in 1..Len(e.result.calls[c])}
                                    = PositionsOf(e, id)

C13_Witness ==
    /\ pc = "evaluated"
    /\ evaluated[1].check.intent = "group"
    /\ Len(evaluated[1].slices) = MaxSlices
    /\ evaluated[1].result.raised = None
    /\ evaluated[1].result.annotation.skipped = <<"1">>
    /\ DOMAIN evaluated[1].result.annotation.groups = {"0"}
    /\ Len(evaluated[1].result.calls) = 1

\* The greatest of a non-empty set of severities.
MaxSeverity(S) == CHOOSE x \in S : \A y \in S : y <= x

Reorderings(l) ==
    IF l = <<>> THEN {<<>>}
    ELSE {[i \in 1..Len(l) |-> l[f[i]]] : f \in Permutations(1..Len(l))}

\* C15: Severity.merge returns the maximum of the list by the order
\* INFO < PASS < WARN < FAIL and INFO for the empty list; the result is
\* the same for every reordering of the list and for the list followed by
\* itself.
C15_MergeIsMaximum ==
    /\ INFO < PASS /\ PASS < WARN /\ WARN < FAIL
    /\ \A k \in 1..Len(merge_calls) :
          LET l == merge_calls[k].severities
              result == merge_calls[k].result
          IN  /\ l = <<>> => result = INFO
              /\ l # <<>> => result = MaxSeverity({l[i] : i \in 1..Len(l)})
              /\ \A r \in Reorderings(l) : SeverityMerge(r) = result
              /\ SeverityMerge(l \o l) = result

C15_Witness ==
    /\ pc = "merged"
    /\ merge_calls[1].severities = <<PASS, FAIL, WARN, INFO>>
    /\ merge_calls[1].result = FAIL

\* The slices produced in the variation passes so far, the current pass
\* included, and the reference slices.
PassSlices == all_slices \o slices
ReferenceSlices == {references_by_input_id[id] : id \in DOMAIN references_by_input_id}

\* C16 as stated: no slice produced in a variation pass, whatever the
\* entry of the variations list (a null entry included), has the id of the
\* reference slice of the same input, and all slices of the same input id
\* and variation have the same id.
C16_PassSliceIdsDifferFromReference ==
    /\ \A i \in 1..Len(PassSlices) : \A r \in ReferenceSlices :
          input_id(r) = input_id(PassSlices[i]) => SliceId(PassSlices[i]) # SliceId(r)
    /\ \A i, j \in 1..Len(PassSlices) :
          (/\ input_id(PassSlices[i]) = input_id(PassSlices[j])
           /\ PassSlices[i].variation = PassSlices[j].variation)
          => SliceId(PassSlices[i]) = SliceId(PassSlices[j])

\* C16 amended: a slice produced in the pass of a variation (a non-null
\* entry) has the id of no reference slice; a slice produced in the pass of
\* a null entry has the id of the reference slice of its input; all slices
\* of the same input id and variation object have the same id.
C16_VariedSliceIdsDifferFromReference ==
    LET produced == PassSlices
        ids == [i \in 1..Len(produced) |-> SliceId(produced[i])]
        referenceIds == {SliceId(r) : r \in ReferenceSlices}
    IN  /\ \A i \in 1..Len(produced) :
              IF produced[i].variation # NoVariation
              THEN ids[i] \notin referenceIds
              ELSE /\ input_id(produced[i]) \in DOMAIN references_by_input_id
                   /\ ids[i] = SliceId(references_by_input_id[input_id(produced[i])])
        /\ \A i \in 1..Len(produced) : \A j \in (i + 1)..Len(produced) :
              (/\ input_id(produced[i]) = input_id(produced[j])
               /\ produced[i].variation = produced[j].variation)
              => ids[i] = ids[j]

C16_Witness ==
    /\ pc = "checks"
    /\ Len(inputs) = MaxInputs
    /\ Len(all_slices) = MaxInputs * MaxVariations
    /\ all_slices[1].variation = SetFn
    /\ all_slices[Len(all_slices)].variation = SetFn
    /\ input_id(all_slices[1]) = input_id(all_slices[MaxInputs + 1])
    /\ SliceId(all_slices[1]) = SliceId(all_slices[MaxInputs + 1])
    /\ SliceId(all_slices[1]) # SliceId(references_by_input_id[input_id(all_slices[1])])

\* The ids of the slices handed to an evaluate call, and the last
\* position that carries an id.
SliceIds(e) == {SliceId(e.slices[i]) : i \in 1..Len(e.slices)}
LastWithId(e, id) ==
    CHOOSE i \in 1..Len(e.slices) :
        /\ SliceId(e.slices[i]) = id
        /\ \A j \in (i + 1)..Len(e.slices) : SliceId(e.slices[j]) # id

\* C17 as stated: a UnaryCheck evaluated by the Engine that returns has
\* invoked check once per accumulated slice, returns an annotation with
\* one keyed entry per accumulated slice, and a merged severity that is
\* the maximum of the per-slice severities.
C17_UnaryOneEntryPerSlice ==
    \A k \in 1..Len(evaluated) :
        LET e == evaluated[k]
            n == Len(e.slices)
        IN  (e.check.intent = "unary" /\ e.result.raised = None)
            => /\ e.slices = all_slices
               /\ e.result.calls = [i \in 1..n |-> i]
               /\ Cardinality(DOMAIN e.result.annotation) = n
               /\ e.result.severity
                     = MaxSeverity({UnaryCheckFn(e.check, e.slices[i]) : i \in 1..n})

\* C17 amended: the annotation has one keyed entry per distinct slice id
\* among the accumulated slices, holding the severity of the last slice
\* with that id; that is one entry per slice when the slice ids are
\* pairwise distinct.
C17_UnaryOneEntryPerSliceId ==
    \A k \in 1..Len(evaluated) :
        LET e == evaluated[k]
            n == Len(e.slices)
        IN  (e.check.intent = "unary" /\ e.result.raised = None)
            => /\ e.slices = all_slices
               /\ n >= 1
               /\ e.result.calls = [i \in 1..n |-> i]
               /\ DOMAIN e.result.annotation = SliceIds(e)
               /\ \A id \in SliceIds(e) :
                     e.result.annotation[id]
                        = SeverityLabel(UnaryCheckFn(e.check, e.slices[LastWithId(e, id)]))
               /\ Cardinality(SliceIds(e)) = n
                     => Cardinality(DOMAIN e.result.annotation) = n
               /\ e.result.severity
                     = MaxSeverity({UnaryCheckFn(e.check, e.slices[i]) : i \in 1..n})

C17_Witness ==
    /\ pc = "checks"
    /\ Len(evaluated) >= 1
    /\ evaluated[1].check = RepetitionsUnder
    /\ Len(inputs) = MaxInputs
    /\ Len(evaluated[1].slices) = MaxInputs * MaxVariations
    /\ Cardinality(DOMAIN evaluated[1].result.annotation) = MaxInputs * MaxVariations
    /\ evaluated[1].result.severity = FAIL
    /\ UnaryCheckFn(RepetitionsUnder, all_slices[Len(all_slices)]) = PASS

\* The calls of one operation of the sink for one index, as positions of
\* `report`.
SinkCalls(op, index) ==
    {j \in 1..Len(report) : report[j].op = op /\ report[j].index = index}
VariationOps == {"start_variation", "finish_variation"}
CheckOps == {"start_check", "finish_check"}

\* C18: the Engine calls the sink in processing order, without buffering
\* or reordering.  Every pass read so far has exactly one start_variation,
\* made before every compute of the pass and after the finish_variation of
\* the pass before it; finish_variation of a pass follows every compute of
\* the pass; every variation call precedes every check call; every
\* check read so far has exactly one start_check, made before its evaluate
\* and after the finish_check of the check before it; finish_check follows
\* the evaluate that returned.
C18_SinkCalledInProcessingOrder ==
    /\ \A j \in 1..(Len(report) - 1) :
          /\ report[j].t < report[j + 1].t
          /\ report[j].op \in CheckOps => report[j + 1].op \in CheckOps
    /\ \A j \in 1..Len(report) :
          /\ report[j].op \in VariationOps \cup CheckOps
          /\ report[j].op \in VariationOps => report[j].index < Len(variations)
          /\ report[j].op \in CheckOps => report[j].index < Len(checks)
    /\ \A p \in 1..Len(variations) :
          LET starts == SinkCalls("start_variation", p - 1)
              finishes == SinkCalls("finish_variation", p - 1)
              computes == PassComputeCalls(p)
          IN  /\ Cardinality(starts) = 1
              /\ Cardinality(finishes) <= 1
              /\ \A s \in starts :
                    /\ report[s].name = variations[p].name
                    /\ \A c \in 1..Len(computes) : report[s].t < computes[c].t
                    /\ p > 1 => \E f \in SinkCalls("finish_variation", p - 2) :
                                    report[f].t < report[s].t
              /\ \A f \in finishes :
                    /\ \A c \in 1..Len(computes) : computes[c].t < report[f].t
                    /\ Len(computes) = report[f].n_inputs
              /\ checks # <<>> => finishes # {}
    /\ \A c \in 1..Len(checks) :
          LET starts == SinkCalls("start_check", c - 1)
              finishes == SinkCalls("finish_check", c - 1)
          IN  /\ Cardinality(starts) = 1
              /\ Cardinality(finishes) <= 1
              /\ \A s \in starts :
                    /\ report[s].name = checks[c].name
                    /\ c <= Len(evaluated) => report[s].t < evaluated[c].t
                    /\ c > 1 => \E f \in SinkCalls("finish_check", c - 2) :
                                    report[f].t < report[s].t
              /\ \A f \in finishes :
                    /\ c <= Len(evaluated)
                    /\ evaluated[c].t < report[f].t
                    /\ evaluated[c].result.raised = None
                    /\ report[f].severity = evaluated[c].result.severity
              /\ c <= Len(evaluated) =>
                    /\ evaluated[c].check = checks[c]
                    /\ evaluated[c].result.raised = None => finishes # {}
    /\ Len(evaluated) <= Len(checks)

C18_Witness ==
    /\ pc = "done"
    /\ Len(variations) = MaxVariations
    /\ Len(checks) = MaxEntries - MaxVariations
    /\ Len(checks) >= 1
    /\ Len(report) = 2 * MaxEntries
    /\ Len(PassComputeCalls(1)) = MaxInputs
    /\ Len(PassComputeCalls(Len(variations))) = MaxInputs
    /\ Len(evaluated) = Len(checks)

\* The last Backend.run has exited with an error (of compute, or of
\* update_environment in its finally block) and its caller has taken over.
RunFailed ==
    /\ run_call.raised \/ run_call.cleanup_raised
    /\ pc \notin {"run_compute", "run_finally", "run_exit"}

\* C19: a failing backend execution aborts the run, without retry.  When
\* compute or update_environment raises during Engine.run, the run ends
\* with that error: nothing more happens (no compute, no call of the
\* sink), no input of a pass has been computed twice, the failing call is
\* the last compute, finish_variation has not been called for the failing
\* pass, and no check has been started.
C19_BackendFailureAbortsRun ==
    /\ RunFailed => (pc = "error" /\ error = ErrBackend)
    /\ \A j \in 1..Len(fn_seen) : \A k \in (j + 1)..Len(fn_seen) :
          \/ fn_seen[j].caller # fn_seen[k].caller
          \/ fn_seen[j].pass # fn_seen[k].pass
          \/ fn_seen[j].index # fn_seen[k].index
    /\ (pc = "error" /\ error = ErrBackend)
       => /\ ~ENABLED Next
          /\ RunFailed =>
                /\ fn_seen[Len(fn_seen)].caller = run_call.caller
                /\ fn_seen[Len(fn_seen)].index = run_call.index
          /\ Len(variations) >= 1 => SinkCalls("finish_variation", Len(variations) - 1) = {}
          /\ \A j \in 1..Len(report) : report[j].op \in VariationOps
          /\ checks = <<>>
          /\ evaluated = <<>>

C19_Witness ==
    /\ pc = "error"
    /\ error = ErrBackend
    /\ run_call.raised
    /\ run_call.caller = "run_variation"
    /\ Len(variations) = MaxVariations
    /\ Len(applied_inputs) = MaxInputs
    /\ run_call.index = 1
    /\ SinkCalls("finish_variation", 0) # {}

\* C20: a failing check aborts the check phase.  evaluate raises when it
\* is given no slice and when check raises; when evaluate of check j
\* raises, the run ends with that error, finish_check has not been called
\* for check j, and no later check is started or evaluated (nothing more
\* happens); every finish_check reports the result of an evaluate that
\* returned, so no failure is turned into INFO.
C20_CheckFailureAbortsCheckPhase ==
    /\ \A k \in 1..Len(evaluated) :
          LET e == evaluated[k]
          IN  /\ e.slices = <<>> => e.result.raised = ErrNoSlices
              /\ (e.slices # <<>> /\ CheckRaises(e.check)) => e.result.raised = ErrCheck
              /\ e.result.raised # None
                 => /\ k = Len(evaluated)
                    /\ k = Len(checks)
                    /\ pc = "error"
                    /\ error = e.result.raised
                    /\ SinkCalls("finish_check", k - 1) = {}
                    /\ report[Len(report)].op = "start_check"
                    /\ report[Len(report)].index = k - 1
                    /\ ~ENABLED Next
    /\ \A j \in 1..Len(report) :
          report[j].op = "finish_check"
          => LET e == evaluated[report[j].index + 1]
             IN  /\ e.result.raised = None
                 /\ e.slices # <<>>
                 /\ ~CheckRaises(e.check)
                 /\ report[j].severity = e.result.severity

C20_Witness ==
    /\ pc = "error"
    /\ Len(checks) = MaxChecks
    /\ Len(evaluated) = MaxChecks
    /\ evaluated[1].result.raised = None
    /\ evaluated[MaxChecks].result.raised = ErrCheck
    /\ error = ErrCheck
    /\ Len(variations) = MaxEntries - MaxChecks
    /\ Len(all_slices) = MaxInputs * Len(variations)
    /\ Len(all_slices) >= 1
    /\ SinkCalls("finish_check", 0) # {}

\* The call that constructed the backend.
Constructed == backend_calls # <<>> /\ backend_calls[1].op = "construct"

C23_SetFunctionMergesWithoutApplying ==
    \A k \in 1..Len(backend_calls) :
       LET c == backend_calls[k]
       IN  c.op = "set_function"
           => /\ DOMAIN c.after.function = DOMAIN c.before.function \cup DOMAIN c.arg
              /\ \A key \in DOMAIN c.arg : c.after.function[key] = c.arg[key]
              /\ \A key \in DOMAIN c.before.function \ DOMAIN c.arg :
                    c.after.function[key] = c.before.function[key]
              /\ ~c.raised
              /\ c.after.applied = c.before.applied
              /\ c.after.computed = c.before.computed
              /\ c.after.environment = c.before.environment
              /\ c.after.base_function = c.before.base_function
              /\ c.after.base_environment = c.before.base_environment
              /\ (k < Len(backend_calls) /\ backend_calls[k + 1].op = "run"
                  /\ Len(fn_seen) > c.after.computed)
                 => fn_seen[c.after.computed + 1].function = c.after.function

C23_Witness ==
    /\ pc = "backend"
    /\ Len(backend_calls) = MaxCalls
    /\ backend_calls[2].op = "set_function"
    /\ backend_calls[2].arg = Single("extra", "x")
    /\ backend_calls[MaxCalls].op = "run"
    /\ fn_seen[1].function = [fn |-> "base", extra |-> "x"]
    /\ Len(env_applied) = 1

\* The configuration of a backend state, without the counts of the calls
\* made on the hooks.
Configuration(state) ==
    [function |-> state.function, environment |-> state.environment,
     base_function |-> state.base_function, base_environment |-> state.base_environment]

C25_OnlyBackendMethodsWriteCurrent ==
    \A k \in 1..Len(backend_calls) :
       LET c == backend_calls[k]
           returned == k < Len(backend_calls) \/ pc = "backend"
       IN  /\ c.op = "construct"
              => /\ c.after.environment = c.after.base_environment
                 /\ c.after.function = c.after.base_function
           /\ c.op = "set_environment"
              => /\ c.after.environment = MapUpdate(c.before.environment, c.arg)
                 /\ c.after.function = c.before.function
           /\ c.op = "set_function"
              => /\ c.after.environment = c.before.environment
                 /\ c.after.function = MapUpdate(c.before.function, c.arg)
           /\ c.op = "reset"
              => /\ c.after.environment = c.before.base_environment
                 /\ c.after.function = c.before.base_function
           /\ c.op = "snapshot"
              => /\ c.after.environment = c.before.environment
                 /\ c.after.function = c.before.function
           /\ (c.op = "run" /\ returned)
              => /\ c.after.environment = IF c.arg.cleanup_env
                                          THEN c.before.base_environment
                                          ELSE c.before.environment
                 /\ c.after.function = IF c.arg.cleanup_fn
                                       THEN c.before.base_function
                                       ELSE c.before.function

\* The keys of the four configuration maps of the backend.
ConfigurationKeys ==
    DOMAIN function \cup DOMAIN environment \cup DOMAIN base_function
        \cup DOMAIN base_environment

\* C26: reads of the backend configuration operate on independent copies.
\* A compute that writes into the input or the function map it receives,
\* an update_environment that writes into the map it receives and a caller
\* that writes into the result of snapshot() leave the current and the
\* base configuration of the backend and the caller's inputs as they were:
\* nothing these callees wrote shows in them.
C26_ReadsAreDeepCopies ==
    /\ "mutated" \notin ConfigurationKeys
    /\ run_call.data # MutatedInput(run_call.data)
    /\ \A i \in 1..Len(inputs) : inputs[i].data = Data
    /\ Constructed => /\ base_environment = BaseEnvironment(backend_class)
                      /\ base_function = BaseFunction(backend_class)
    /\ \A k \in 1..Len(backend_calls) :
          LET c == backend_calls[k]
              returned == k < Len(backend_calls) \/ pc = "backend"
          IN  /\ c.op = "snapshot"
                 => /\ Configuration(c.after) = Configuration(c.before)
                    /\ (k = Len(backend_calls) /\ pc = "backend")
                       => /\ snapshot.function = function
                          /\ snapshot.environment = environment
              /\ (c.op = "run" /\ returned)
                 => /\ c.after.base_function = c.before.base_function
                    /\ c.after.base_environment = c.before.base_environment
                    /\ ~c.arg.cleanup_fn => c.after.function = c.before.function
                    /\ ~c.arg.cleanup_env => c.after.environment = c.before.environment
                    /\ k = Len(backend_calls) => run_call.data = c.arg.input
              /\ (c.op = "set_environment" \/ c.op = "reset")
                 => env_applied[c.after.applied].environment = c.after.environment

C26_Witness ==
    /\ pc = "backend"
    /\ Len(backend_calls) = MaxCalls + 1
    /\ backend_calls[2].op = "set_environment"
    /\ ~backend_calls[2].raised
    /\ backend_calls[MaxCalls].op = "snapshot"
    /\ backend_calls[MaxCalls + 1].op = "run"
    /\ ~backend_calls[MaxCalls + 1].raised
    /\ ~backend_calls[MaxCalls + 1].arg.cleanup_fn
    /\ ~backend_calls[MaxCalls + 1].arg.cleanup_env
    /\ Len(fn_seen) = 1
    /\ environment = snapshot.environment
    /\ run_call.data = Data

\* The pairs of an evaluate call whose outputs differ.
DifferingPairs(e) ==
    {i \in 1..Len(e.slices) : e.slices[i].output # e.references[i].output}

\* C27: MatchesBaseline returns PASS for a (slice, reference) pair exactly
\* when the output of the slice equals the output of the reference and
\* FAIL otherwise; evaluated over several aligned pairs, the merged
\* severity is FAIL iff at least one pair differs, and PASS otherwise.
C27_MatchesBaselinePassIffEqual ==
    \A k \in 1..Len(evaluated) :
       LET e == evaluated[k]
       IN  (e.check = MatchesBaseline /\ e.slices # <<>>
            /\ Len(e.slices) = Len(e.references) /\ Misaligned(e) = {})
           => /\ e.result.raised = None
              /\ e.result.calls = [i \in 1..Len(e.slices) |-> i]
              /\ e.result.severity = FAIL <=> DifferingPairs(e) # {}
              /\ e.result.severity = PASS <=> DifferingPairs(e) = {}
              /\ \A i \in 1..Len(e.slices) :
                    ReferenceCheckFn(e.check, e.slices[i], e.references[i])
                       = IF i \in DifferingPairs(e) THEN FAIL ELSE PASS

\* The same for the pairs whose outputs json.dumps can encode.
MatchesBaselineOnEncodable ==
    \A k \in 1..Len(evaluated) :
       LET e == evaluated[k]
       IN  (e.slices # <<>> /\ \A i \in 1..Len(e.slices) :
               JsonEncodable(e.slices[i].output) /\ JsonEncodable(e.references[i].output))
           => /\ e.result.raised = None
              /\ e.result.severity = FAIL <=> DifferingPairs(e) # {}
              /\ e.result.severity = PASS <=> DifferingPairs(e) = {}

\* The ambient variable `key` is set; it is set to a text that is not
\* empty and whose JSON value is not null.
IsSet(c, key) == key \in DOMAIN c.environ
HasValue(c, key) ==
    /\ key \in DOMAIN c.environ
    /\ c.environ[key] # ""
    /\ Loads(c.environ[key]) # None
Declared(c) == ParamName \in DOMAIN c.params

\* C28: the component resolver fills a constructor parameter, in priority
\* order, from (a) the value declared in the spec block, (b) the ambient
\* variable named exactly like the parameter, (c) the ambient variable
\* with the VIGIL_ prefix; a declared value always wins over both ambient
\* lookups, and a required parameter without default found in none of
\* the three is an error raised during setup, before any backend
\* execution.
C28_DeclaredThenNameThenPrefix ==
    \A k \in 1..Len(load_calls) :
       LET c == load_calls[k]
           r == c.result
           found == Declared(c) \/ IsSet(c, ParamName) \/ IsSet(c, Prefixed(ParamName))
       IN  /\ Declared(c) => (r.source = "declared" /\ r.value = c.params[ParamName])
           /\ (~Declared(c) /\ IsSet(c, ParamName)) => r.source = "name"
           /\ (~Declared(c) /\ ~IsSet(c, ParamName) /\ IsSet(c, Prefixed(ParamName)))
              => r.source = "prefix"
           /\ (~found /\ c.has_default) => (r.raised = None /\ r.source = "default")
           /\ r.raised # None <=> (~found /\ ~c.has_default)
           /\ r.raised # None => (error = r.raised /\ fn_seen = <<>> /\ pc = "loaded")

\* C28 (amended): the same, where an ambient variable counts as found only
\* when it is set to a text that is not empty and whose JSON value is not
\* null, its value being the JSON value of the text, or the text itself
\* when it is not JSON; the prefixed variable is VIGIL_ followed by the
\* upper-cased parameter name.
C28_DeclaredThenValuedNameThenValuedPrefix ==
    \A k \in 1..Len(load_calls) :
       LET c == load_calls[k]
           r == c.result
           found == Declared(c) \/ HasValue(c, ParamName) \/ HasValue(c, Prefixed(ParamName))
           ValueOf(key) == IF Loads(c.environ[key]) = NotJson THEN c.environ[key]
                           ELSE Loads(c.environ[key])
       IN  /\ Declared(c) => (r.source = "declared" /\ r.value = c.params[ParamName])
           /\ (~Declared(c) /\ HasValue(c, ParamName))
              => (r.source = "name" /\ r.value = ValueOf(ParamName))
           /\ (~Declared(c) /\ ~HasValue(c, ParamName) /\ HasValue(c, Prefixed(ParamName)))
              => (r.source = "prefix" /\ r.value = ValueOf(Prefixed(ParamName)))
           /\ (~found /\ c.has_default) => (r.raised = None /\ r.source = "default")
           /\ r.raised # None <=> (~found /\ ~c.has_default)
           /\ r.raised # None => (error = r.raised /\ fn_seen = <<>> /\ pc = "loaded")

C28_Witness ==
    /\ pc = "loaded"
    /\ load_calls[1].params = EmptyMap
    /\ load_calls[1].environ = [x \in {ParamName, Prefixed(ParamName)} |->
                                   IF x = ParamName THEN "null" ELSE "123"]
    /\ ~load_calls[1].has_default
    /\ load_calls[1].result.source = "prefix"
    /\ load_calls[1].result.value = <<"int", "123">>

\* The entries of the report: finish_variation appends one to
\* `variations`, finish_check one to `checks`.
ReportEntries(op) ==
    LET IsOp(event) == event.op = op
    IN  SelectSeq(report, IsOp)

\* C29: after an Engine.run that returns, the report holds exactly one
\* `variations` entry per variation pass and one `checks` entry per check,
\* in the order the passes and checks were processed, and the input count
\* of each variation entry equals the number of inputs executed in that
\* pass.
C29_ReportHasOneEntryPerPassAndCheck ==
    pc = "done"
    => LET variation_entries == ReportEntries("finish_variation")
           check_entries == ReportEntries("finish_check")
       IN  /\ Len(variation_entries) = Len(variations)
           /\ \A p \in 1..Len(variations) :
                 /\ variation_entries[p].index = p - 1
                 /\ variation_entries[p].name = variations[p].name
                 /\ variation_entries[p].n_inputs = Len(PassComputeCalls(p))
           /\ Len(check_entries) = Len(checks)
           /\ Len(evaluated) = Len(checks)
           /\ \A c \in 1..Len(checks) :
                 /\ check_entries[c].index = c - 1
                 /\ check_entries[c].name = checks[c].name
                 /\ check_entries[c].severity = evaluated[c].result.severity

C29_Witness ==
    /\ pc = "done"
    /\ Len(inputs) = MaxInputs
    /\ Len(variations) = MaxVariations
    /\ variations[1] = DropFirst
    /\ variations[MaxVariations].intent = "function"
    /\ Len(checks) = MaxEntries - MaxVariations
    /\ Len(checks) >= 1
    /\ ReportEntries("finish_variation")[1].n_inputs = MaxInputs - 1
    /\ ReportEntries("finish_variation")[MaxVariations].n_inputs = MaxInputs
    /\ Len(ReportEntries("finish_check")) = Len(checks)

\* Engine.run is inside a pass whose variation is null or of INPUT intent.
InPlainPass == InPass /\ CurrentVariation.intent \in {None, "input"}

\* C30: during a pass whose variation is null or of INPUT intent, every
\* backend.run call has both cleanup flags false, update_environment is
\* never invoked, and the current environment and function of the backend
\* are the same before the pass (the step that applies the variation),
\* between any two inputs of the pass and after it (the step that ends
\* it).
C30_PlainPassLeavesBackendUntouched ==
    [][(InPlainPass \/ InPlainPass')
       => /\ function' = function
          /\ environment' = environment
          /\ env_applied' = env_applied
          /\ base_function' = base_function
          /\ base_environment' = base_environment
          /\ (InPlainPass' /\ pc' = "run_compute")
             => (~run_call'.cleanup_env /\ ~run_call'.cleanup_fn)]_vars

C30_Witness ==
    /\ pc = "variations"
    /\ Len(variations) = MaxVariations
    /\ variations[1] = NoVariation
    /\ variations[MaxVariations] = [SetInputData EXCEPT !.hash = MaxVariations]
    /\ Len(PassComputeCalls(1)) = MaxInputs
    /\ Len(PassComputeCalls(MaxVariations)) = MaxInputs
    /\ \A k \in 1..Len(fn_seen) :
          fn_seen[k].caller = "run_variation"
          => (~fn_seen[k].cleanup_env /\ ~fn_seen[k].cleanup_fn)
    /\ Len(ReportEntries("finish_variation")) = MaxVariations

\* The batch a pass of variation v works on, given the inputs list of
\* Engine.run.
BatchOf(v, ins) == IF v.intent = "input" THEN InputApply(v, ins) ELSE ins

\* C31: every variation pass is applied to the original inputs list of
\* Engine.run: no step of the run changes the inputs list (an INPUT
\* variation works on a deep copy), and the batch of every pass is what
\* its variation makes of that list, whatever the earlier passes did.
C31_PassesWorkOnOriginalInputs ==
    [][/\ inputs' = inputs
       /\ InPass' => applied_inputs' = BatchOf(CurrentVariation', inputs)]_vars

\* A pass follows a pass of an INPUT variation that rewrote every input.
C31_Witness ==
    /\ InPass
    /\ Len(variations) = MaxVariations
    /\ variations[1].intent = "input" /\ variations[1].op = "data"
    /\ Len(inputs) = MaxInputs
    /\ Len(PassComputeCalls(1)) = MaxInputs
    /\ \A k \in 1..MaxInputs : PassComputeCalls(1)[k].data = VariedData
    /\ CurrentVariation.intent # "input"
    /\ applied_inputs = inputs
    /\ \A k \in 1..MaxInputs : inputs[k].data = Data

\* The compute calls made from the variation passes, the slices produced
\* by the passes so far, and the environment the underlying system was in
\* at time t.
VariationComputeCalls ==
    LET OfPasses(c) == c.caller = "run_variation"
    IN  SelectSeq(fn_seen, OfPasses)
LiveAt(t) ==
    LET earlier == {j \in 1..Len(env_applied) : env_applied[j].t < t}
    IN  env_applied[Cardinality(earlier)].environment
\* Slice s records the configuration compute call c ran under.
RecordsCall(s, c) ==
    /\ s.function = c.function
    /\ s.environment = c.environment
    /\ s.environment = LiveAt(c.t)
    /\ s.input.data = c.data

\* C32: every slice produced by executing the backend records the function
\* and environment that were in effect during its own compute call: the
\* k-th accumulated slice records what the k-th compute call of the passes
\* received and the environment live at that call, and so does the k-th
\* slice of the pass in progress for the k-th call of the pass, also when
\* the run of that call restored base afterwards; an executed reference
\* slice records the configuration of a compute call of reference
\* construction on its input.
C32_SliceRecordsConfigurationOfItsCompute ==
    /\ LET calls == VariationComputeCalls
       IN  /\ Len(all_slices) <= Len(calls)
           /\ \A k \in 1..Len(all_slices) : RecordsCall(all_slices[k], calls[k])
    /\ \A k \in 1..Len(all_slices) :
          LET s == all_slices[k]
          IN  /\ s.source = "executed"
              /\ s.variation.intent = "function"
                 => s.function = MutatedFunction(s.variation)
              /\ s.variation.intent = "environment"
                 => s.environment = MutatedEnvironment(s.variation)
    /\ variations # <<>>
       => LET calls == PassComputeCalls(Len(variations))
          IN  /\ Len(slices) <= Len(calls)
              /\ \A k \in 1..Len(slices) : RecordsCall(slices[k], calls[k])
    /\ \A id \in DOMAIN references_by_input_id :
          LET s == references_by_input_id[id]
          IN  s.source = "executed"
              => \E k \in 1..Len(fn_seen) :
                    /\ fn_seen[k].caller = "build_references"
                    /\ inputs[fn_seen[k].index] = s.input
                    /\ s.function = fn_seen[k].function
                    /\ s.environment = fn_seen[k].environment
                    /\ s.environment = LiveAt(fn_seen[k].t)

\* A FUNCTION pass and an ENVIRONMENT pass are over: their last slices
\* record the mutated maps while the backend is at base again.
C32_Witness ==
    /\ pc = "variations"
    /\ Len(all_slices) = MaxVariations * MaxInputs
    /\ \E k \in 1..Len(all_slices) :
          /\ all_slices[k].variation.intent = "function"
          /\ VariationComputeCalls[k].cleanup_fn
          /\ all_slices[k].function = [fn |-> "var"]
    /\ \E k \in 1..Len(all_slices) :
          /\ all_slices[k].variation.intent = "environment"
          /\ VariationComputeCalls[k].cleanup_env
          /\ all_slices[k].environment = [env |-> "var"]
    /\ \E id \in DOMAIN references_by_input_id :
          references_by_input_id[id].source = "executed"
    /\ AtBase

\* C33: the slice list passed to every check holds exactly one slice per
\* (variation pass, applied input), by pass in declaration order and by
\* input order within the pass; compute was called once per such slice in
\* that same order; every check of the run receives this same list.
C33_ChecksSeeOneSlicePerPassAndInput ==
    \A n \in 1..Len(evaluated) :
       LET sl == evaluated[n].slices
           calls == VariationComputeCalls
       IN  /\ sl = all_slices
           /\ Len(sl) = Len(calls)
           /\ \A p \in 1..Len(variations) :
                 LET ofPass == PassComputeCalls(p)
                 IN  /\ Len(ofPass) = Len(BatchOf(variations[p], inputs))
                     /\ \A i \in 1..Len(ofPass) : ofPass[i].index = i
           /\ \A k \in 1..Len(sl) :
                 /\ sl[k].variation = variations[calls[k].pass]
                 /\ sl[k].input = BatchOf(variations[calls[k].pass], inputs)[calls[k].index]
                 /\ calls[k].data = sl[k].input.data
                 /\ calls[k].t < evaluated[n].t
           /\ \A j, k \in 1..Len(calls) :
                 j < k => /\ calls[j].t < calls[k].t
                          /\ \/ calls[j].pass < calls[k].pass
                             \/ /\ calls[j].pass = calls[k].pass
                                /\ calls[j].index < calls[k].index

\* A check is evaluated after two passes over the largest inputs list, the
\* second of them over inputs an INPUT variation rewrote.
C33_Witness ==
    /\ Len(evaluated) >= 1
    /\ Len(variations) = MaxVariations
    /\ Len(all_slices) = MaxVariations * MaxInputs
    /\ variations[MaxVariations].intent = "input"
    /\ variations[1].intent = "function"
    /\ evaluated[1].slices[Len(all_slices)].input.data = VariedData
    /\ evaluated[1].result.raised = None

\* The position of the first slice of the id, and how often the id is in
\* `skipped`.
FirstPosition(e, id) == CHOOSE i \in PositionsOf(e, id) : \A j \in PositionsOf(e, id) : i <= j
TimesSkipped(e, id) ==
    Cardinality({j \in 1..Len(e.result.annotation.skipped) :
                    e.result.annotation.skipped[j] = id})

\* C34: GroupCheck.evaluate partitions the slices by input id: every slice
\* is in exactly one group (one invocation of check, or one skipped group
\* of a single slice), a group holds slices of one id and all of them, in
\* the order of the slice list, and the groups are visited in the order in
\* which their ids first appear.
C34_GroupsPartitionSlicesInOrder ==
    \A n \in 1..Len(evaluated) :
        LET e == evaluated[n]
            calls == e.result.calls
            skipped == e.result.annotation.skipped
        IN  (e.check.intent = "group" /\ e.slices # <<>>)
            => /\ e.result.raised = None
               /\ \A i \in 1..Len(e.slices) :
                     LET id == input_id(e.slices[i])
                     IN  /\ Cardinality(CallsOn(e, id)) + TimesSkipped(e, id) = 1
                         /\ \A c \in CallsOn(e, id) :
                               Cardinality({j \in 1..Len(calls[c]) : calls[c][j] = i}) = 1
                         /\ TimesSkipped(e, id) = 1 => PositionsOf(e, id) = {i}
               /\ \A c \in 1..Len(calls) :
                     /\ \A j, k \in 1..Len(calls[c]) : j < k => calls[c][j] < calls[c][k]
                     /\ \A j \in 1..Len(calls[c]) :
                           input_id(e.slices[calls[c][j]]) = input_id(e.slices[calls[c][1]])
               /\ \A c, d \in 1..Len(calls) : c < d => calls[c][1] < calls[d][1]
               /\ \A j, k \in 1..Len(skipped) :
                     j < k => FirstPosition(e, skipped[j]) < FirstPosition(e, skipped[k])

\* The slices of one id are separated by a slice of another id.
C34_Witness ==
    /\ pc = "evaluated"
    /\ evaluated[1].check.intent = "group"
    /\ Len(evaluated[1].slices) = MaxSlices
    /\ input_id(evaluated[1].slices[1]) = "1"
    /\ input_id(evaluated[1].slices[2]) = "0"
    /\ input_id(evaluated[1].slices[MaxSlices]) = "1"
    /\ Len(evaluated[1].result.calls) = 1
    /\ evaluated[1].result.calls[1][1] = 1
    /\ evaluated[1].result.calls[1][Len(evaluated[1].result.calls[1])] = MaxSlices
    /\ evaluated[1].result.annotation.skipped = <<"0">>

\* C35: every executed reference slice is computed under the base
\* configuration: at each compute call of reference construction the
\* function passed is the base function and the current and the live
\* environment are the base environment, in every run the CLI loop makes
\* on the backend.
C35_ReferencesComputedAtBase ==
    \A k \in 1..Len(fn_seen) :
        fn_seen[k].caller = "build_references"
        => /\ fn_seen[k].function = base_function
           /\ fn_seen[k].environment = base_environment
           /\ LiveAt(fn_seen[k].t) = base_environment

\* C36: after a FUNCTION (resp. ENVIRONMENT) variation is applied, the
\* current function (resp. environment) of the backend is the map vary
\* produced from the configuration current before: the map it returned, or
\* the copy it mutated, also when vary removed a key.
C36_AppliedConfigurationIsVaryResult ==
    [][Len(variations') = Len(variations) + 1
       => /\ CurrentVariation'.intent = "function"
             => function' = VaryResult(CurrentVariation', function, "fn")
          /\ CurrentVariation'.intent = "environment"
             => environment' = VaryResult(CurrentVariation', environment, "env")]_vars

\* The same, for a vary that keeps every key of the configuration.
AppliedConfigurationIsVaryResultWhenKeysKept ==
    [][(/\ Len(variations') = Len(variations) + 1
        /\ CurrentVariation'.op = "set")
       => /\ CurrentVariation'.intent = "function"
             => function' = VaryResult(CurrentVariation', function, "fn")
          /\ CurrentVariation'.intent = "environment"
             => environment' = VaryResult(CurrentVariation', environment, "env")]_vars

\* The list a check received holds the slices of the variation passes and
\* nothing else, and references are handed to REFERENCE checks only, taken
\* from the reference map.
OnlyPassSlicesReachChecks(e) ==
    /\ e.slices = all_slices
    /\ LET calls == VariationComputeCalls
       IN  /\ Len(e.slices) = Len(calls)
           /\ \A k \in 1..Len(e.slices) :
                 /\ e.slices[k].variation = variations[calls[k].pass]
                 /\ e.slices[k].input =
                       BatchOf(variations[calls[k].pass], inputs)[calls[k].index]
                 /\ e.slices[k].source = "executed"
    /\ e.references # <<>> => e.check.intent = "reference"
    /\ e.check.intent = "reference"
       => /\ Len(e.references) = Len(e.slices)
          /\ \A k \in 1..Len(e.slices) :
                e.references[k] = references_by_input_id[input_id(e.slices[k])]

\* The batch of the only pass of the run, and whether its ids are distinct.
OnlyBatch == BatchOf(variations[1], inputs)
BatchIdsDistinct ==
    \A i, j \in 1..Len(OnlyBatch) : OnlyBatch[i].id = OnlyBatch[j].id => i = j

\* A GROUP check that evaluated no group: INFO, every id skipped.
NoGroupEvaluated(e) ==
    /\ e.result.raised = None
    /\ e.result.severity = INFO
    /\ e.result.calls = <<>>
    /\ e.result.annotation.n_groups = 0
    /\ {e.result.annotation.skipped[j] : j \in 1..Len(e.result.annotation.skipped)}
          = {OnlyBatch[i].id : i \in 1..Len(OnlyBatch)}
    /\ Len(e.result.annotation.skipped) = Len(OnlyBatch)

\* C37 as stated: reference slices are never on the list passed to a
\* check, they reach a check only as the references of a REFERENCE check,
\* and a GROUP check of a run with a single pass over inputs with distinct
\* ids evaluates no group and returns INFO with every id skipped.
C37_GroupCheckOfSinglePassIsInfo ==
    \A n \in 1..Len(evaluated) :
        LET e == evaluated[n]
        IN  /\ OnlyPassSlicesReachChecks(e)
            /\ (e.check.intent = "group" /\ Len(variations) = 1 /\ BatchIdsDistinct)
               => NoGroupEvaluated(e)

\* C37, amended: the same, for a single pass over at least one input; over
\* an empty batch the GROUP check raises.
C37_GroupCheckOfSingleNonEmptyPassIsInfo ==
    \A n \in 1..Len(evaluated) :
        LET e == evaluated[n]
        IN  /\ OnlyPassSlicesReachChecks(e)
            /\ (e.check.intent = "group" /\ Len(variations) = 1 /\ BatchIdsDistinct)
               => IF OnlyBatch = <<>>
                  THEN e.result.raised = ErrNoSlices
                  ELSE NoGroupEvaluated(e)

\* A GROUP check after one pass over the largest inputs list, one of whose
\* references was executed.
C37_Witness ==
    /\ Len(evaluated) >= 1
    /\ evaluated[1].check.intent = "group"
    /\ Len(variations) = 1
    /\ Len(evaluated[1].slices) = MaxInputs
    /\ BatchIdsDistinct
    /\ Len(evaluated[1].result.annotation.skipped) = MaxInputs
    /\ evaluated[1].result.severity = INFO
    /\ \E id \in DOMAIN references_by_input_id :
          references_by_input_id[id].source = "executed"

\* C38: the base environment and the base function are fixed at
\* construction: they are the maps the constructor was given, whatever the
\* caller, compute and update_environment write into the maps they hold,
\* and no set_environment, set_function, run, reset or snapshot call
\* changes them, whether it returns or raises.
C38_BaseMapsAreFixed ==
    Constructed
    => /\ base_environment = BaseEnvironment(backend_class)
       /\ base_function = BaseFunction(backend_class)
       /\ \A k \in 1..Len(backend_calls) :
             LET c == backend_calls[k]
             IN  /\ c.after.base_environment = BaseEnvironment(backend_class)
                 /\ c.after.base_function = BaseFunction(backend_class)
                 /\ k > 1 => /\ c.before.base_environment = c.after.base_environment
                             /\ c.before.base_function = c.after.base_function

\* The current maps were varied, a run with both cleanup flags raised, and
\* the base maps are the constructor's.
C38_Witness ==
    /\ pc = "backend"
    /\ Len(backend_calls) = MaxCalls + 1
    /\ backend_calls[2].op = "set_function"
    /\ backend_calls[MaxCalls].op = "set_environment"
    /\ backend_calls[MaxCalls + 1].op = "run"
    /\ backend_calls[MaxCalls + 1].raised
    /\ backend_calls[MaxCalls + 1].arg.cleanup_env
    /\ backend_calls[MaxCalls + 1].arg.cleanup_fn
    /\ backend_calls[MaxCalls + 1].before.function # base_function
    /\ backend_calls[MaxCalls + 1].before.environment # base_environment
    /\ base_environment = BaseEnvironment(backend_class)
    /\ base_function = BaseFunction(backend_class)

\* The element a simple entry resolves to.
Element(entry) == entry.type

\* C39: resolving a `repeat` block requires times > 0: a block whose count
\* is zero or less is rejected with a configuration error, and a block
\* with count n > 0 and a non-empty `do` yields the resolved `do` sequence
\* n times in order; a loaded variations list is therefore the
\* concatenation of non-empty block results and never the [None] that
\* stands for an empty list.
C39_RepeatRequiresPositiveTimes ==
    \A k \in 1..Len(load_calls) :
       LET c == load_calls[k]
       IN  /\ \A i \in 1..Len(c.raw) :
                LET b == c.raw[i]
                    n == RepeatTimes(b)
                    list == c.blocks[i].list
                IN  b.type = "repeat"
                    => /\ n <= 0 => /\ c.blocks[i].raised # None
                                    /\ c.result.raised # None
                       /\ (n > 0 /\ b.do # <<>>)
                          => /\ c.blocks[i].raised = None
                             /\ Len(list) = n * Len(b.do)
                             /\ \A j \in 1..Len(list) :
                                   list[j] = Element(b.do[((j - 1) % Len(b.do)) + 1])
           /\ c.result.raised = None
              => /\ c.result.resolved # <<>>
                 /\ c.result.variations = c.result.resolved
                 /\ \A i \in 1..Len(c.raw) : c.blocks[i].list # <<>>

\* The same, for the counts the loader does reject (below zero) and the
\* positive ones.
RepeatOfNonZeroTimes ==
    \A k \in 1..Len(load_calls) :
       LET c == load_calls[k]
       IN  (\A i \in 1..Len(c.raw) : RepeatTimes(c.raw[i]) # 0)
           => /\ \A i \in 1..Len(c.raw) :
                    LET b == c.raw[i]
                        n == RepeatTimes(b)
                        list == c.blocks[i].list
                    IN  b.type = "repeat"
                        => /\ n < 0 => /\ c.blocks[i].raised = ErrRepeatTimes
                                       /\ c.result.raised # None
                           /\ (n > 0 /\ b.do # <<>>)
                              => /\ c.blocks[i].raised = None
                                 /\ Len(list) = n * Len(b.do)
                                 /\ \A j \in 1..Len(list) :
                                       list[j] = Element(b.do[((j - 1) % Len(b.do)) + 1])
              /\ c.result.raised = None
                 => /\ c.result.resolved # <<>>
                    /\ c.result.variations = c.result.resolved

====
